---- MODULE Spec2Model ----
(***************************************************************************)
(* polar_mqtt: the Domain Model Layer (cpp/impl/PolarMqtt.cpp) and the     *)
(* Flattening Layer (cpp/bridge/src/mqtt_c.cpp) over the native session    *)
(* engine (Paho MQTTClient), which is an environment of the model: it      *)
(* answers every primitive with a result code and delivers connection-lost *)
(* and message-arrived events for the clients that exist in it.            *)
(***************************************************************************)
EXTENDS Integers, Sequences, FiniteSets, TLC

\* ---------------------------------------------------------------- bounds
MaxSessions == 1      \* sessions ever created (session identities are not reused)
MaxClients == 2       \* native clients that exist in the engine at one time
MaxSubs == 2          \* the subscription-handle counter is driven up to MaxSubs + 1
MaxMsgs == 2          \* the message-id counter is driven up to MaxMsgs + 1
MaxRefs == 3          \* APIFactory::refCount_ is driven up to MaxRefs

Sessions == 1..MaxSessions
Topics == {"t1", "t2"}
Urls == {"null", "", "test.broker"}          \* const char *url arguments
Paths == {"null", "", "ca.pem"}              \* const char *path arguments
Names == {"null", "user"}                    \* const char *username / password
IntValues == {7}                             \* int32_t parameter values
Handles == {-1} \cup (1..MaxSubs)            \* int64_t handle arguments
Ports == {1883}
Causes == {"null", "socket closed"}          \* char *cause of a connection-lost event

\* ------------------------------------------------------ program constants
MQTTCLIENT_SUCCESS == 0
EngineFailures == {-1, -3}       \* MQTTCLIENT_FAILURE, MQTTCLIENT_DISCONNECTED

DISCONNECTED == "DISCONNECTED"
CONNECTING == "CONNECTING"
CONNECTED == "CONNECTED"
RECONNECTING == "RECONNECTING"
SessionState == {DISCONNECTED, CONNECTING, CONNECTED, RECONNECTING}

Parameter == {"KEEP_ALIVE_INTERVAL", "CLEAN_SESSION", "CONNECTION_TIMEOUT",
              "MAX_INFLIGHT", "MAX_QUEUED_MESSAGES", "RECONNECT_DELAY",
              "TLS_ENABLED"}

VARIABLES
    g_factory,            \* mqtt_c.cpp: g_factory != nullptr
    instance_,            \* APIFactory::instance_ != nullptr
    refCount_,            \* APIFactory::refCount_
    handles,              \* the mqtt_session_t records, by session identity
    g_session_handlers,   \* keys of the registry of SessionCallbackHandler adapters
    g_message_handlers,   \* keys of the registry of MessageCallbackHandler adapters
    impl,                 \* Session::Impl of each session
    config,               \* ConnectionConfig::Impl of each session
    engine,               \* the native clients of the engine, by callback context
    hist,                 \* per session: start / publish ever called, greatest handle / id returned
    last,                 \* the most recent call or event and what it did
    pc,                   \* per thread: the statement it is at inside a call or callback
    loc,                  \* per thread: the local variables of that call
    stateMutex,           \* Session::Impl::stateMutex: "free" or the thread that holds it
    g_mutex,              \* mqtt_c.cpp: g_mutex, "free" or the thread that holds it
    pending,              \* state writes whose onStateChange call is still to come, in write order
    issued,               \* handles returned by subscribe so far, and those not yet unsubscribed
    callbacks,            \* Client::callbacks, the Mutex<CallbackContext>: "free" or the thread that holds it
    entered,              \* per thread: the trampoline of the binding it is in, "-" if none
    running               \* the user closures that are executing, each with its thread

\* The variables of the calls in progress.  They matter where the statements
\* of concurrent calls interleave; a call made as one step leaves them alone.
clientVars == <<callbacks, entered, running>>
threadVars == <<pc, loc, stateMutex, g_mutex, pending, issued, clientVars>>

vars == <<g_factory, instance_, refCount_, handles, g_session_handlers,
          g_message_handlers, impl, config, engine, hist, last,
          pc, loc, stateMutex, g_mutex, pending, issued, callbacks, entered, running>>

\* ------------------------------------------------------------ observations
\* One record per call or engine event: its result, the engine primitives it
\* issued and the handler notifications it made, in order.
Obs(op, s, arg, ret, eng, notes) ==
    [op |-> op, s |-> s, arg |-> arg, ret |-> ret, eng |-> eng, notes |-> notes]

\* enum class SessionState : int32_t, by enumerator
SessionStateValue(st) ==
    CASE st = DISCONNECTED -> 0
      [] st = CONNECTING -> 1
      [] st = CONNECTED -> 2
      [] st = RECONNECTING -> 3

\* What the function of the C API that wraps a Session method returns for
\* the value ret the method returned: start() ? 0 : -1 (the same for stop and
\* unsubscribe), the int64_t of subscribe and publish as it is, and
\* static_cast<mqtt_session_state_t>(getState()), whose enumerators have the
\* values of SessionState.
\* variant: the bool is returned as it converts to int
BridgeReturnTruthy(op, ret) ==
    CASE op \in {"start", "stop", "unsubscribe"} -> IF ret THEN 1 ELSE 0
      [] op \in {"subscribe", "publish"} -> ret
      [] op = "getState" -> SessionStateValue(ret)
BridgeReturn(op, ret) ==
    CASE op \in {"start", "stop", "unsubscribe"} -> IF ret THEN 0 ELSE -1
      [] op \in {"subscribe", "publish"} -> ret
      [] op = "getState" -> SessionStateValue(ret)

\* The record of a Session method called as one step: ret is what the method
\* returned, c_ret what the C function calling it on a valid handle returns.
MethodObs(op, s, arg, ret, eng, notes) ==
    [op |-> op, s |-> s, arg |-> arg, ret |-> ret, eng |-> eng, notes |-> notes,
     c_ret |-> BridgeReturn(op, ret)]

StateNote(st) == [cb |-> "onStateChange", state |-> st, code |-> 0, text |-> "-"]
\* onError(code, message): the message is a string literal of the call site
\* ("literal"), except in onConnectionLost
ErrorNoteText(rc, text) == [cb |-> "onError", state |-> "-", code |-> rc, text |-> text]
ErrorNote(rc) == ErrorNoteText(rc, "literal")
MessageNote == [cb |-> "onMessage", state |-> "-", code |-> 0, text |-> "-"]

\* An engine primitive and the code it answered (0 for the void ones)
Call(name, rc) == [call |-> name, rc |-> rc]

\* const char *p ? p : ""
StrOrEmpty(p) == IF p = "null" THEN "" ELSE p

\* ------------------------------------------------------------ constructors
\* ConnectionConfig::Impl, value-initialised by new Impl()
NewConfig ==
    [broker |-> "", port |-> 0, username |-> "", password |-> "",
     caFile |-> "", certFile |-> "", keyFile |-> "",
     keepAliveInterval |-> 60, cleanSession |-> TRUE, connectionTimeout |-> 30,
     maxInflight |-> 10, maxQueuedMessages |-> 100, reconnectDelay |-> 5,
     tlsEnabled |-> FALSE]

\* Session::Impl after Session::Session(clientId, handler); client is zeroed by
\* the value-initialisation of new Impl().
\* variant: client left uninitialised and not null
NewImplStaleClient ==
    [alive |-> "live", client |-> TRUE, msgHandler |-> FALSE, sessionHandler |-> TRUE,
     currentState |-> DISCONNECTED, subscriptions |-> {},
     nextSubHandle |-> 1, nextMessageId |-> 1]
\* variant: the handle counter starts at 0
NewImplHandlesFromZero ==
    [alive |-> "live", client |-> FALSE, msgHandler |-> FALSE, sessionHandler |-> TRUE,
     currentState |-> DISCONNECTED, subscriptions |-> {},
     nextSubHandle |-> 0, nextMessageId |-> 1]

NewImpl ==
    [alive |-> "live", client |-> FALSE, msgHandler |-> FALSE, sessionHandler |-> TRUE,
     currentState |-> DISCONNECTED, subscriptions |-> {},
     nextSubHandle |-> 1, nextMessageId |-> 1]

NoImpl == [NewImpl EXCEPT !.alive = "none", !.sessionHandler = FALSE]
DeletedImpl == [NewImpl EXCEPT !.alive = "deleted", !.sessionHandler = FALSE]

NoClients == [held |-> "none", idle |-> 0, connected |-> 0]
NoHandle == [status |-> "none", session |-> 0, message_cb |-> FALSE]
NewHist == [started |-> FALSE, published |-> FALSE, handle |-> 0, id |-> 0]

\* The caller threads A and B and the thread E on which the engine runs the
\* callbacks
Threads == {"A", "B", "E"}
NoLocals == [s |-> 0, handle |-> 0, topic |-> "-", fn |-> "-"]
NoThreads ==
    /\ pc = [t \in Threads |-> "idle"]
    /\ loc = [t \in Threads |-> NoLocals]
    /\ stateMutex = "free"
    /\ g_mutex = "free"
    /\ pending = <<>>
    /\ issued = [returned |-> {}, open |-> {}]
    /\ callbacks = "free"
    /\ entered = [t \in Threads |-> "-"]
    /\ running = {}

Init ==
    /\ NoThreads
    /\ g_factory = FALSE
    /\ instance_ = FALSE
    /\ refCount_ = 0
    /\ handles = [s \in Sessions |-> NoHandle]
    /\ g_session_handlers = {}
    /\ g_message_handlers = {}
    /\ impl = [s \in Sessions |-> NoImpl]
    /\ config = [s \in Sessions |-> NewConfig]
    /\ engine = [s \in Sessions |-> NoClients]
    /\ hist = [s \in Sessions |-> NewHist]
    /\ last = Obs("init", 0, 0, 0, <<>>, <<>>)

Live(s) == handles[s].status = "live"

\* ------------------------------------------------------------- APIFactory
\* APIFactory::getInstance
\* variant: the count is advanced only when the instance is created
getInstanceCountsOnce ==
    /\ instance_' = TRUE
    /\ refCount_' = IF instance_ THEN refCount_ ELSE refCount_ + 1
getInstance ==
    /\ instance_' = TRUE
    /\ refCount_' = refCount_ + 1

\* APIFactory::uninitialize
uninitialize ==
    /\ refCount_' = refCount_ - 1
    /\ instance_' = IF refCount_ - 1 = 0 /\ instance_ THEN FALSE ELSE instance_

\* APIFactory::getInstance() called by the application itself
APIFactory_getInstance ==
    /\ refCount_ < MaxRefs
    /\ getInstance
    /\ last' = Obs("getInstance", 0, 0, "instance", <<>>, <<>>)
    /\ UNCHANGED <<g_factory, handles, g_session_handlers, g_message_handlers, impl,
                   config, engine, hist>>
    /\ UNCHANGED threadVars

\* p->uninitialize() called by the application on a pointer it got from
\* getInstance: it gives back a reference of its own, not the one g_factory holds
APIFactory_uninitialize ==
    /\ instance_
    /\ refCount_ > (IF g_factory THEN 1 ELSE 0)
    /\ uninitialize
    /\ last' = Obs("uninitialize", 0, 0, 0, <<>>, <<>>)
    /\ UNCHANGED <<g_factory, handles, g_session_handlers, g_message_handlers, impl,
                   config, engine, hist>>
    /\ UNCHANGED threadVars

\* variant: every call takes a reference
mqtt_initializeAlwaysCounts ==
    /\ getInstance /\ g_factory' = TRUE
    /\ last' = Obs("mqtt_initialize", 0, 0, 0, <<>>, <<>>)
    /\ UNCHANGED <<handles, g_session_handlers, g_message_handlers, impl, config,
                   engine, hist>>
    /\ UNCHANGED threadVars

\* int mqtt_initialize(...)
mqtt_initialize ==
    /\ IF ~g_factory
          THEN getInstance /\ g_factory' = TRUE
          ELSE UNCHANGED <<g_factory, instance_, refCount_>>
    /\ last' = Obs("mqtt_initialize", 0, 0, 0, <<>>, <<>>)
    /\ UNCHANGED <<handles, g_session_handlers, g_message_handlers, impl, config,
                   engine, hist>>
    /\ UNCHANGED threadVars

\* int mqtt_uninitialize(void)
mqtt_uninitialize ==
    /\ IF g_factory
          THEN uninitialize /\ g_factory' = FALSE
          ELSE UNCHANGED <<g_factory, instance_, refCount_>>
    /\ last' = Obs("mqtt_uninitialize", 0, 0, 0, <<>>, <<>>)
    /\ UNCHANGED <<handles, g_session_handlers, g_message_handlers, impl, config,
                   engine, hist>>
    /\ UNCHANGED threadVars

\* ------------------------------------------------------- std::map helpers
\* std::map<int64_t, std::string> as the set of its <<key, value>> pairs
Keys(m) == {p[1] : p \in m}
Values(m) == {p[2] : p \in m}
Find(m, k) == CHOOSE p \in m : p[1] = k
Put(m, k, v) == {p \in m : p[1] # k} \cup {<<k, v>>}
Erase(m, k) == {p \in m : p[1] # k}

\* ------------------------------------------------------------ the engine
\* The native clients that exist, grouped by the Session::Impl they were
\* created for (the context of their callbacks).  held is the client that
\* Impl::client points at; the others are clients whose handle the Impl no
\* longer holds, counted by whether they are connected.
\* engine[s] = [held |-> "none" | "created" | "connected",
\*              idle |-> Nat, connected |-> Nat]
ClientsOf(e) == (IF e.held = "none" THEN 0 ELSE 1) + e.idle + e.connected
RECURSIVE SumClients(_, _)
SumClients(eng, S) ==
    IF S = {} THEN 0
    ELSE LET s == CHOOSE x \in S : TRUE
         IN ClientsOf(eng[s]) + SumClients(eng, S \ {s})
ClientCount == SumClients(engine, Sessions)

\* The engine's answer to subscribe / unsubscribe / publish on the client an
\* Impl holds: a null handle is refused, a client that is not connected is
\* refused, a connected client succeeds or fails.
EngineResults(s) ==
    IF ~impl[s].client THEN {-1}
    ELSE IF engine[s].held = "connected" THEN {MQTTCLIENT_SUCCESS, -1}
    ELSE {-3}

\* The answers of MQTTClient_create and MQTTClient_connect
CallResults == {MQTTCLIENT_SUCCESS} \cup EngineFailures

\* MQTTClient_create(&impl_->client, ...) succeeded: the handle the Impl held
\* is overwritten, and the client it named stays in the engine.
EngineCreate(e) ==
    [held |-> "created",
     idle |-> e.idle + (IF e.held = "created" THEN 1 ELSE 0),
     connected |-> e.connected + (IF e.held = "connected" THEN 1 ELSE 0)]

\* ------------------------------------------------------- Session::stop
\* What stop() does to a Session::Impl: nothing unless it holds a native client.
\* variant: the subscription table is cleared with the client
StopImplClearsSubscriptions(im) ==
    IF im.client
       THEN [im EXCEPT !.client = FALSE, !.currentState = DISCONNECTED,
                       !.subscriptions = {}]
       ELSE im
StopImpl(im) ==
    IF im.client
       THEN [im EXCEPT !.client = FALSE, !.currentState = DISCONNECTED]
       ELSE im

\* The engine calls of stop(): MQTTClient_disconnect, whose result rc is
\* not looked at, and MQTTClient_destroy.
\* variant: the client is destroyed without being disconnected
StopEngineCallsDestroyOnly(im, rc) ==
    IF im.client THEN <<Call("destroy", 0)>> ELSE <<>>
StopEngineCalls(im, rc) ==
    IF im.client THEN <<Call("disconnect", rc), Call("destroy", 0)>> ELSE <<>>

\* variant: the notification is made outside the if (impl_->client) block
StopNotesUnguarded(im) ==
    IF im.sessionHandler THEN <<StateNote(DISCONNECTED)>> ELSE <<>>
StopNotes(im) ==
    IF im.client /\ im.sessionHandler THEN <<StateNote(DISCONNECTED)>> ELSE <<>>

\* MQTTClient_disconnect and MQTTClient_destroy of the client the Impl holds
StopEngine(s) ==
    IF impl[s].client
       THEN [engine EXCEPT ![s].held = "none"]
       ELSE engine

\* bool Session::stop()
Session_stop(s) ==
    /\ Live(s)
    /\ LET im == impl[s] IN
       /\ impl' = [impl EXCEPT ![s] = StopImpl(im)]
       /\ engine' = StopEngine(s)
       /\ \E rc \in EngineResults(s) :
             last' = MethodObs("stop", s, 0, TRUE, StopEngineCalls(im, rc), StopNotes(im))
    /\ UNCHANGED <<g_factory, instance_, refCount_, handles, g_session_handlers,
                   g_message_handlers, config, hist>>
    /\ UNCHANGED threadVars

\* Session::State Session::getState() const: a read of currentState under
\* stateMutex, with no effect on the session.
getState(s) == impl[s].currentState

\* ------------------------------------------------------ Session::start
\* The notifications of a start() whose broker is not empty.
StartNotes(im, rcCreate, rcConnect) ==
    IF rcCreate # MQTTCLIENT_SUCCESS
       THEN IF im.sessionHandler THEN <<ErrorNote(rcCreate)>> ELSE <<>>
    ELSE IF rcConnect # MQTTCLIENT_SUCCESS
       THEN IF im.sessionHandler THEN <<ErrorNote(rcConnect)>> ELSE <<>>
    ELSE IF im.sessionHandler THEN <<StateNote(CONNECTED)>> ELSE <<>>

\* The notifications of a start() whose broker is empty: std::cerr only.
EmptyBrokerNotes(im) == <<>>

\* The writes of currentState, in order, of a start() that got a client from
\* MQTTClient_create: CONNECTING before MQTTClient_connect, then its outcome.
StartWrites(rcConnect) ==
    <<CONNECTING,
      IF rcConnect # MQTTCLIENT_SUCCESS THEN DISCONNECTED ELSE CONNECTED>>

\* Session::Impl after a start() that got a client from MQTTClient_create.
\* variant: a start that fails at connect gives the client up
StartImplReleasesOnFailure(im, rcConnect) ==
    [im EXCEPT !.client = (rcConnect = MQTTCLIENT_SUCCESS),
               !.currentState = StartWrites(rcConnect)[Len(StartWrites(rcConnect))]]
StartImpl(im, rcConnect) ==
    [im EXCEPT !.client = TRUE,
               !.currentState = StartWrites(rcConnect)[Len(StartWrites(rcConnect))]]

\* bool Session::start()
Session_start(s) ==
    /\ Live(s)
    /\ hist' = [hist EXCEPT ![s].started = TRUE]
    /\ LET im == impl[s] IN
       IF config[s].broker = ""
          THEN /\ last' = MethodObs("start", s, "broker", FALSE, <<>>, EmptyBrokerNotes(im))
               /\ UNCHANGED <<impl, engine>>
          ELSE /\ ClientCount < MaxClients
               /\ \/ \E rcCreate \in EngineFailures :
                       /\ last' = MethodObs("start", s, "create", FALSE,
                                      <<Call("create", rcCreate)>>,
                                      StartNotes(im, rcCreate, MQTTCLIENT_SUCCESS))
                       /\ UNCHANGED <<impl, engine>>
                  \/ \E rcConnect \in CallResults :
                       /\ impl' = [impl EXCEPT ![s] = StartImpl(im, rcConnect)]
                       /\ engine' = [engine EXCEPT ![s] =
                             [EngineCreate(@) EXCEPT !.held =
                                 IF rcConnect = MQTTCLIENT_SUCCESS
                                    THEN "connected" ELSE "created"]]
                       /\ last' = MethodObs("start", s, "connect",
                                      rcConnect = MQTTCLIENT_SUCCESS,
                                      <<Call("create", 0), Call("setCallbacks", 0),
                                        Call("connect", rcConnect)>>,
                                      StartNotes(im, MQTTCLIENT_SUCCESS, rcConnect))
    /\ UNCHANGED <<g_factory, instance_, refCount_, handles, g_session_handlers,
                   g_message_handlers, config>>
    /\ UNCHANGED threadVars

\* ------------------------------------------------- session create / destroy
UnusedSessions == {s \in Sessions : handles[s].status = "none"}
NewSession == CHOOSE s \in UnusedSessions : \A r \in UnusedSessions : s <= r

\* The registries after mqtt_create_session has stored the adapters of s.
CreateSessionHandlers(s) == g_session_handlers \cup {s}
\* variant: the message adapter is stored without the if (message_cb)
CreateMessageHandlersAlways(s, message_cb) == g_message_handlers \cup {s}
CreateMessageHandlers(s, message_cb) ==
    IF message_cb THEN g_message_handlers \cup {s} ELSE g_message_handlers

\* if (!g_factory) return nullptr;
\* variant: the check is missing
NoFactoryNever == FALSE
\* the check of the code
NoFactory == ~g_factory

\* mqtt_session_handle_t mqtt_create_session(client_id, message_cb, state_cb,
\*                                           error_cb, user_context)
mqtt_create_session(message_cb) ==
    /\ IF NoFactory
          THEN /\ last' = Obs("mqtt_create_session", 0, message_cb, "null", <<>>, <<>>)
               /\ UNCHANGED <<handles, g_session_handlers, g_message_handlers, impl,
                              config, hist>>
          ELSE /\ UnusedSessions # {}
               /\ LET s == NewSession IN
                  /\ impl' = [impl EXCEPT ![s] =
                                 [NewImpl EXCEPT !.msgHandler = message_cb]]
                  /\ config' = [config EXCEPT ![s] = NewConfig]
                  /\ handles' = [handles EXCEPT ![s] =
                        [status |-> "live", session |-> s, message_cb |-> message_cb]]
                  /\ g_message_handlers' = CreateMessageHandlers(s, message_cb)
                  /\ g_session_handlers' = CreateSessionHandlers(s)
                  /\ hist' = [hist EXCEPT ![s] = NewHist]
                  /\ last' = Obs("mqtt_create_session", s, message_cb, "handle",
                                 <<>>, <<>>)
    /\ UNCHANGED <<g_factory, instance_, refCount_, engine>>
    /\ UNCHANGED threadVars

\* Session::~Session, reached through APIFactory::destroySession: a second
\* stop() (the client is already null) and delete impl_, which takes the
\* ConnectionConfig with it.  Without a factory the Session object is not deleted.
\* variant: the Session object is deleted whether or not a factory is in effect
DestroyImplAlwaysDeletes(im) == DeletedImpl
DestroyImpl(im) == IF g_factory THEN DeletedImpl ELSE StopImpl(im)
DestroyConfig(cfg) == IF g_factory THEN NewConfig ELSE cfg

\* The registries after mqtt_destroy_session has erased the adapters of s.
EraseSessionHandlers(s) == g_session_handlers \ {s}
EraseMessageHandlers(s) == g_message_handlers \ {s}

\* void mqtt_destroy_session(mqtt_session_handle_t session), session not null
mqtt_destroy_session(s) ==
    /\ Live(s)
    /\ LET im == impl[s] IN
       /\ engine' = StopEngine(s)
       /\ impl' = [impl EXCEPT ![s] = DestroyImpl(im)]
       /\ \E rc \in EngineResults(s) :
             last' = Obs("mqtt_destroy_session", s, 0, "void",
                         StopEngineCalls(im, rc), StopNotes(im))
    /\ config' = [config EXCEPT ![s] = DestroyConfig(config[s])]
    /\ g_message_handlers' = EraseMessageHandlers(s)
    /\ g_session_handlers' = EraseSessionHandlers(s)
    /\ handles' = [handles EXCEPT ![s] =
                      [status |-> "freed", session |-> 0, message_cb |-> FALSE]]
    /\ hist' = [hist EXCEPT ![s] = NewHist]
    /\ UNCHANGED <<g_factory, instance_, refCount_>>
    /\ UNCHANGED threadVars

\* impl Drop for Client (the Rust binding): mqtt_session_stop(self.session)
\* and then mqtt_destroy_session(self.session), whose own stop() finds the
\* client already released.  last.arg lists the C calls in the order made.
Client_drop(s) ==
    /\ Live(s)
    /\ LET im == impl[s]
           stopped == StopImpl(im) IN
       /\ engine' = StopEngine(s)
       /\ impl' = [impl EXCEPT ![s] = DestroyImpl(stopped)]
       /\ \E rc \in EngineResults(s) :
             last' = Obs("Client_drop", s,
                         <<"mqtt_session_stop", "mqtt_destroy_session">>, "void",
                         StopEngineCalls(im, rc) \o StopEngineCalls(stopped, rc),
                         StopNotes(im) \o StopNotes(stopped))
    /\ config' = [config EXCEPT ![s] = DestroyConfig(config[s])]
    /\ g_message_handlers' = EraseMessageHandlers(s)
    /\ g_session_handlers' = EraseSessionHandlers(s)
    /\ handles' = [handles EXCEPT ![s] =
                      [status |-> "freed", session |-> 0, message_cb |-> FALSE]]
    /\ hist' = [hist EXCEPT ![s] = NewHist]
    /\ UNCHANGED <<g_factory, instance_, refCount_>>
    /\ UNCHANGED threadVars

\* ------------------------------------------------------ engine callbacks
\* The callbacks run on the engine's thread with context = the Session::Impl
\* the client was created for.  When that Impl has been deleted, or the
\* handler adapter it points to has been released, the call is a use after
\* free: the handler may run as if the memory were intact, or the call faults.
Outcomes == {"intact", "fault"}

SessionHandlerDangling(s) ==
    \/ impl[s].alive = "deleted"
    \/ impl[s].sessionHandler /\ s \notin g_session_handlers

MessageHandlerDangling(s) ==
    \/ impl[s].alive = "deleted"
    \/ impl[s].msgHandler /\ s \notin g_message_handlers

\* cause ? cause : "Connection lost"
CauseText(cause) == IF cause = "null" THEN "Connection lost" ELSE cause

\* The notifications of Session::Impl::onConnectionLost
\* variant: the error is reported before the state change
ConnectionLostNotesErrorFirst(im, cause) ==
    IF im.sessionHandler
       THEN <<ErrorNoteText(-1, CauseText(cause)), StateNote(RECONNECTING)>>
       ELSE <<>>
ConnectionLostNotes(im, cause) ==
    IF im.sessionHandler
       THEN <<StateNote(RECONNECTING), ErrorNoteText(-1, CauseText(cause))>>
       ELSE <<>>

\* The engine loses the connection of a client of context s: the one the
\* Impl holds (held = TRUE) or one it no longer holds.
EngineLost(e, held) ==
    IF held THEN [e EXCEPT !.held = "created"]
    ELSE [e EXCEPT !.connected = @ - 1, !.idle = @ + 1]

HasConnected(s, held) ==
    IF held THEN engine[s].held = "connected" ELSE engine[s].connected > 0

\* static void Session::Impl::onConnectionLost(void *context, char *cause)
onConnectionLost(s, held, cause) ==
    /\ HasConnected(s, held)
    /\ engine' = [engine EXCEPT ![s] = EngineLost(@, held)]
    /\ impl' = IF impl[s].alive = "live"
                  THEN [impl EXCEPT ![s].currentState = RECONNECTING]
                  ELSE impl
    /\ IF SessionHandlerDangling(s)
          THEN \E o \in Outcomes :
                  last' = Obs("onConnectionLost", s, cause, o, <<>>,
                              IF o = "intact"
                                 THEN <<StateNote(RECONNECTING),
                                        ErrorNoteText(-1, CauseText(cause))>>
                                 ELSE <<>>)
          ELSE last' = Obs("onConnectionLost", s, cause, "void", <<>>,
                           ConnectionLostNotes(impl[s], cause))
    /\ UNCHANGED <<g_factory, instance_, refCount_, handles, g_session_handlers,
                   g_message_handlers, config, hist>>
    /\ UNCHANGED threadVars

\* The notifications of Session::Impl::onMessageCallback
MessageNotes(im) == IF im.msgHandler THEN <<MessageNote>> ELSE <<>>

\* What onMessageCallback does with the message, in the order of its
\* statements: the handler call inside if (impl->msgHandler), then
\* MQTTClient_freeMessage(&message) and MQTTClient_free(topicName).
\* variant: the buffers are released before the handler reads them
MessageStepsFreeFirst(im) ==
    <<"freeMessage", "free">> \o (IF im.msgHandler THEN <<"onMessage">> ELSE <<>>)
MessageSteps(im) ==
    (IF im.msgHandler THEN <<"onMessage">> ELSE <<>>) \o <<"freeMessage", "free">>

\* static int Session::Impl::onMessageCallback(context, topicName, topicLen, message)
onMessageCallback(s, held) ==
    /\ HasConnected(s, held)
    /\ IF MessageHandlerDangling(s)
          THEN \E o \in Outcomes :
                  last' = Obs("onMessageCallback", s,
                              IF o = "intact"
                                 THEN <<"onMessage", "freeMessage", "free">>
                                 ELSE <<o>>,
                              1,
                              <<Call("freeMessage", 0), Call("free", 0)>>,
                              IF o = "intact" THEN <<MessageNote>> ELSE <<>>)
          ELSE last' = Obs("onMessageCallback", s, MessageSteps(impl[s]), 1,
                           <<Call("freeMessage", 0), Call("free", 0)>>, MessageNotes(impl[s]))
    /\ UNCHANGED <<g_factory, instance_, refCount_, handles, g_session_handlers,
                   g_message_handlers, impl, config, engine, hist>>
    /\ UNCHANGED threadVars

\* --------------------------------------------------- ConnectionConfig setters
\* ConnectionConfig::setBroker
setBroker(cfg, url, port) == [cfg EXCEPT !.broker = StrOrEmpty(url), !.port = port]

\* int mqtt_set_broker(session, url, port), session valid
mqtt_set_broker(s, url, port) ==
    /\ Live(s)
    /\ config' = [config EXCEPT ![s] = setBroker(config[s], url, port)]
    /\ last' = Obs("mqtt_set_broker", s, 0, 0, <<>>, <<>>)
    /\ UNCHANGED <<g_factory, instance_, refCount_, handles, g_session_handlers,
                   g_message_handlers, impl, engine, hist>>
    /\ UNCHANGED threadVars

\* ConnectionConfig::setCredentials
setCredentials(cfg, username, password) ==
    [cfg EXCEPT !.username = StrOrEmpty(username), !.password = StrOrEmpty(password)]

\* ConnectionConfig::setTlsCertificates
\* variant: TLS is enabled only when a CA file is given
setTlsCertificatesIfCa(cfg, caFile, certFile, keyFile) ==
    [cfg EXCEPT !.caFile = StrOrEmpty(caFile), !.certFile = StrOrEmpty(certFile),
                !.keyFile = StrOrEmpty(keyFile),
                !.tlsEnabled = (caFile # "null") \/ @]
setTlsCertificates(cfg, caFile, certFile, keyFile) ==
    [cfg EXCEPT !.caFile = StrOrEmpty(caFile), !.certFile = StrOrEmpty(certFile),
                !.keyFile = StrOrEmpty(keyFile), !.tlsEnabled = TRUE]

\* ConnectionConfig::set(Parameter, int32_t)
\* variant: the boolean codes are accepted too, as value != 0
setIntCoercing(cfg, param, value) ==
    CASE param = "KEEP_ALIVE_INTERVAL" -> [cfg EXCEPT !.keepAliveInterval = value]
      [] param = "CONNECTION_TIMEOUT" -> [cfg EXCEPT !.connectionTimeout = value]
      [] param = "MAX_INFLIGHT" -> [cfg EXCEPT !.maxInflight = value]
      [] param = "MAX_QUEUED_MESSAGES" -> [cfg EXCEPT !.maxQueuedMessages = value]
      [] param = "RECONNECT_DELAY" -> [cfg EXCEPT !.reconnectDelay = value]
      [] param = "CLEAN_SESSION" -> [cfg EXCEPT !.cleanSession = (value # 0)]
      [] param = "TLS_ENABLED" -> [cfg EXCEPT !.tlsEnabled = (value # 0)]
      [] OTHER -> cfg
setInt(cfg, param, value) ==
    CASE param = "KEEP_ALIVE_INTERVAL" -> [cfg EXCEPT !.keepAliveInterval = value]
      [] param = "CONNECTION_TIMEOUT" -> [cfg EXCEPT !.connectionTimeout = value]
      [] param = "MAX_INFLIGHT" -> [cfg EXCEPT !.maxInflight = value]
      [] param = "MAX_QUEUED_MESSAGES" -> [cfg EXCEPT !.maxQueuedMessages = value]
      [] param = "RECONNECT_DELAY" -> [cfg EXCEPT !.reconnectDelay = value]
      [] OTHER -> cfg

\* ConnectionConfig::set(Parameter, bool)
setBool(cfg, param, value) ==
    CASE param = "CLEAN_SESSION" -> [cfg EXCEPT !.cleanSession = value]
      [] param = "TLS_ENABLED" -> [cfg EXCEPT !.tlsEnabled = value]
      [] OTHER -> cfg

\* int mqtt_set_int_parameter(session, param, value), session valid
mqtt_set_int_parameter(s, param, value) ==
    /\ Live(s)
    /\ config' = [config EXCEPT ![s] = setInt(config[s], param, value)]
    /\ last' = Obs("mqtt_set_int_parameter", s, param, 0, <<>>, <<>>)
    /\ UNCHANGED <<g_factory, instance_, refCount_, handles, g_session_handlers,
                   g_message_handlers, impl, engine, hist>>
    /\ UNCHANGED threadVars

\* int mqtt_set_bool_parameter(session, param, value), session valid;
\* value is the int argument, passed on as value != 0
mqtt_set_bool_parameter(s, param, value) ==
    /\ Live(s)
    /\ config' = [config EXCEPT ![s] = setBool(config[s], param, value # 0)]
    /\ last' = Obs("mqtt_set_bool_parameter", s, param, 0, <<>>, <<>>)
    /\ UNCHANGED <<g_factory, instance_, refCount_, handles, g_session_handlers,
                   g_message_handlers, impl, engine, hist>>
    /\ UNCHANGED threadVars

\* int mqtt_set_credentials(session, username, password), session valid
mqtt_set_credentials(s, username, password) ==
    /\ Live(s)
    /\ config' = [config EXCEPT ![s] = setCredentials(config[s], username, password)]
    /\ last' = Obs("mqtt_set_credentials", s, 0, 0, <<>>, <<>>)
    /\ UNCHANGED <<g_factory, instance_, refCount_, handles, g_session_handlers,
                   g_message_handlers, impl, engine, hist>>
    /\ UNCHANGED threadVars

\* int mqtt_set_tls_certificates(session, ca_file, cert_file, key_file), session valid
mqtt_set_tls_certificates(s, ca_file, cert_file, key_file) ==
    /\ Live(s)
    /\ config' = [config EXCEPT ![s] =
                     setTlsCertificates(config[s], ca_file, cert_file, key_file)]
    /\ last' = Obs("mqtt_set_tls_certificates", s, 0, 0, <<>>, <<>>)
    /\ UNCHANGED <<g_factory, instance_, refCount_, handles, g_session_handlers,
                   g_message_handlers, impl, engine, hist>>
    /\ UNCHANGED threadVars

\* ------------------------------------------- subscribe / unsubscribe / publish
\* if (impl_->sessionHandler) impl_->sessionHandler->onError(rc, "... failed")
\* variant: reports a fixed code instead of rc
ErrorNotesFixedCode(im, rc) == IF im.sessionHandler THEN <<ErrorNote(-1)>> ELSE <<>>
ErrorNotes(im, rc) == IF im.sessionHandler THEN <<ErrorNote(rc)>> ELSE <<>>

\* Session::Impl after a subscribe the engine accepted
\* variant: the handle counter is not advanced
SubscribeImplNoIncrement(im, topic) ==
    [im EXCEPT !.subscriptions = Put(@, im.nextSubHandle, topic)]
SubscribeImpl(im, topic) ==
    [im EXCEPT !.nextSubHandle = @ + 1,
               !.subscriptions = Put(@, im.nextSubHandle, topic)]

\* int64_t Session::subscribe(const char *topic, Message::QoS qos)
Session_subscribe(s, topic) ==
    /\ Live(s)
    /\ impl[s].nextSubHandle <= MaxSubs
    /\ LET im == impl[s] IN
       \E rc \in EngineResults(s) :
          IF rc # MQTTCLIENT_SUCCESS
             THEN /\ last' = MethodObs("subscribe", s, topic, -1,
                                 <<Call("subscribe", rc)>>, ErrorNotes(im, rc))
                  /\ UNCHANGED <<impl, hist>>
             ELSE /\ impl' = [impl EXCEPT ![s] = SubscribeImpl(im, topic)]
                  /\ hist' = [hist EXCEPT ![s].handle = im.nextSubHandle]
                  /\ last' = MethodObs("subscribe", s, topic, im.nextSubHandle,
                                 <<Call("subscribe", rc)>>, <<>>)
    /\ UNCHANGED <<g_factory, instance_, refCount_, handles, g_session_handlers,
                   g_message_handlers, config, engine>>
    /\ UNCHANGED threadVars

\* it != impl_->subscriptions.end()
\* variant: accepts every handle that was ever issued
FoundEverIssued(im, handle) == handle >= 1 /\ handle < im.nextSubHandle
Found(im, handle) == handle \in Keys(im.subscriptions)

\* Session::Impl after an unsubscribe the engine accepted
\* variant: the entry is not erased
UnsubscribeImplNoErase(im, handle) == im
UnsubscribeImpl(im, handle) == [im EXCEPT !.subscriptions = Erase(@, handle)]

\* Session::Impl after MQTTClient_unsubscribe answered rc for a handle of the
\* table: the erase is reached only past the return false of a failure
\* variant: the entry is erased before rc is looked at
UnsubscribeAnsweredEraseFirst(im, handle, rc) == UnsubscribeImpl(im, handle)
UnsubscribeAnswered(im, handle, rc) ==
    IF rc # MQTTCLIENT_SUCCESS THEN im ELSE UnsubscribeImpl(im, handle)

\* bool Session::unsubscribe(int64_t handle)
Session_unsubscribe(s, handle) ==
    /\ Live(s)
    /\ LET im == impl[s] IN
       IF ~Found(im, handle)
          THEN /\ last' = MethodObs("unsubscribe", s, handle, FALSE, <<>>, <<>>)
               /\ UNCHANGED impl
          ELSE \E rc \in EngineResults(s) :
                  /\ impl' = [impl EXCEPT ![s] = UnsubscribeAnswered(im, handle, rc)]
                  /\ IF rc # MQTTCLIENT_SUCCESS
                        THEN last' = MethodObs("unsubscribe", s, handle, FALSE,
                                         <<Call("unsubscribe", rc)>>,
                                         ErrorNotes(im, rc))
                        ELSE last' = MethodObs("unsubscribe", s, handle, TRUE,
                                         <<Call("unsubscribe", rc)>>, <<>>)
    /\ UNCHANGED <<g_factory, instance_, refCount_, handles, g_session_handlers,
                   g_message_handlers, config, engine, hist>>
    /\ UNCHANGED threadVars

\* int64_t messageId = impl_->nextMessageId++: the id, and the Impl afterwards
\* variant: the counter is advanced before it is read
MessageIdPreIncrement(im) == im.nextMessageId + 1
MessageId(im) == im.nextMessageId
\* variant: the counter is left as it is
PublishImplNoAdvance(im) == im
PublishImpl(im) == [im EXCEPT !.nextMessageId = @ + 1]

\* int64_t Session::publish(topic, payload, length, qos, retain)
Session_publish(s) ==
    /\ Live(s)
    /\ impl[s].nextMessageId <= MaxMsgs
    /\ LET im == impl[s] IN
       /\ impl' = [impl EXCEPT ![s] = PublishImpl(im)]
       /\ \E rc \in EngineResults(s) :
             IF rc # MQTTCLIENT_SUCCESS
                THEN /\ last' = MethodObs("publish", s, 0, -1,
                                    <<Call("publishMessage", rc)>>, ErrorNotes(im, rc))
                     /\ hist' = [hist EXCEPT ![s].published = TRUE]
                ELSE /\ last' = MethodObs("publish", s, 0, MessageId(im),
                                    <<Call("publishMessage", rc)>>, <<>>)
                     /\ hist' = [hist EXCEPT ![s].published = TRUE,
                                             ![s].id = MessageId(im)]
    /\ UNCHANGED <<g_factory, instance_, refCount_, handles, g_session_handlers,
                   g_message_handlers, config, engine>>
    /\ UNCHANGED threadVars

\* void Session::setSessionHandler(SessionHandler *handler): null, or the
\* handler the session was created with
Session_setSessionHandler(s, handler) ==
    /\ Live(s)
    /\ impl' = [impl EXCEPT ![s].sessionHandler = handler]
    /\ last' = Obs("setSessionHandler", s, 0, "void", <<>>, <<>>)
    /\ UNCHANGED <<g_factory, instance_, refCount_, handles, g_session_handlers,
                   g_message_handlers, config, engine, hist>>
    /\ UNCHANGED threadVars

\* ------------------------------------------------ the handle checks of the C API
\* A mqtt_session_handle_t argument: the null pointer, or a pointer to a
\* mqtt_session_t record, whose session member is null (0) or names a Session.
NullHandle == [null |-> TRUE, session |-> 0]
NoSessionHandle == [null |-> FALSE, session |-> 0]
HandleOf(s) == [null |-> FALSE, session |-> s]
HandleArgs == {NullHandle, NoSessionHandle} \cup {HandleOf(s) : s \in Sessions}

\* if (!session || !session->session)
InvalidHandle(h) == h.null \/ h.session = 0

\* return -1; / return MQTT_STATE_DISCONNECTED; on an invalid handle
\* variant: the functions returning int answer 0
InvalidHandleResultZero(fn) ==
    IF fn = "mqtt_session_get_state" THEN DISCONNECTED ELSE 0
InvalidHandleResult(fn) ==
    IF fn = "mqtt_session_get_state" THEN DISCONNECTED ELSE -1

\* The early return of function fn on the invalid handle h
Rejected(fn, h, ret) ==
    /\ last' = Obs(IF h.null THEN "null handle" ELSE "null session", 0, fn, ret,
                   <<>>, <<>>)
    /\ UNCHANGED <<g_factory, instance_, refCount_, handles, g_session_handlers,
                   g_message_handlers, impl, config, engine, hist>>
    /\ UNCHANGED threadVars

\* int mqtt_set_int_parameter(session, param, value)
mqtt_set_int_parameter_any(h, param, value) ==
    IF InvalidHandle(h)
       THEN Rejected("mqtt_set_int_parameter", h,
                     InvalidHandleResult("mqtt_set_int_parameter"))
       ELSE mqtt_set_int_parameter(h.session, param, value)

\* int mqtt_set_bool_parameter(session, param, value)
mqtt_set_bool_parameter_any(h, param, value) ==
    IF InvalidHandle(h)
       THEN Rejected("mqtt_set_bool_parameter", h,
                     InvalidHandleResult("mqtt_set_bool_parameter"))
       ELSE mqtt_set_bool_parameter(h.session, param, value)

\* int mqtt_set_broker(session, url, port)
mqtt_set_broker_any(h, url, port) ==
    IF InvalidHandle(h)
       THEN Rejected("mqtt_set_broker", h, InvalidHandleResult("mqtt_set_broker"))
       ELSE mqtt_set_broker(h.session, url, port)

\* int mqtt_set_credentials(session, username, password)
mqtt_set_credentials_any(h, username, password) ==
    IF InvalidHandle(h)
       THEN Rejected("mqtt_set_credentials", h,
                     InvalidHandleResult("mqtt_set_credentials"))
       ELSE mqtt_set_credentials(h.session, username, password)

\* int mqtt_set_tls_certificates(session, ca_file, cert_file, key_file)
mqtt_set_tls_certificates_any(h, ca_file, cert_file, key_file) ==
    IF InvalidHandle(h)
       THEN Rejected("mqtt_set_tls_certificates", h,
                     InvalidHandleResult("mqtt_set_tls_certificates"))
       ELSE mqtt_set_tls_certificates(h.session, ca_file, cert_file, key_file)

\* void mqtt_destroy_session(mqtt_session_handle_t session): nothing on the
\* null pointer; a record without a session is erased from the registries
\* (it has no entry there) and deleted, with no call into the Domain Model.
mqtt_destroy_session_any(h) ==
    IF InvalidHandle(h)
       THEN Rejected("mqtt_destroy_session", h, "void")
       ELSE mqtt_destroy_session(h.session)

\* The session control, subscription and publishing functions: on a valid
\* handle the Session method is called and its record carries, as c_ret, the
\* value the function returns for the method's result (BridgeReturn).
\* mqtt_session_state_t mqtt_session_get_state(mqtt_session_handle_t session)
mqtt_session_get_state(h) ==
    IF InvalidHandle(h)
       THEN Rejected("mqtt_session_get_state", h,
                     InvalidHandleResult("mqtt_session_get_state"))
       ELSE /\ Live(h.session)
            /\ last' = MethodObs("getState", h.session, 0, getState(h.session), <<>>, <<>>)
            /\ UNCHANGED <<g_factory, instance_, refCount_, handles,
                           g_session_handlers, g_message_handlers, impl, config,
                           engine, hist>>
            /\ UNCHANGED threadVars

\* int mqtt_session_start(mqtt_session_handle_t session)
mqtt_session_start(h) ==
    IF InvalidHandle(h)
       THEN Rejected("mqtt_session_start", h, InvalidHandleResult("mqtt_session_start"))
       ELSE Session_start(h.session)

\* int mqtt_session_stop(mqtt_session_handle_t session)
mqtt_session_stop(h) ==
    IF InvalidHandle(h)
       THEN Rejected("mqtt_session_stop", h, InvalidHandleResult("mqtt_session_stop"))
       ELSE Session_stop(h.session)

\* int64_t mqtt_subscribe(session, topic, qos)
mqtt_subscribe(h, topic) ==
    IF InvalidHandle(h)
       THEN Rejected("mqtt_subscribe", h, InvalidHandleResult("mqtt_subscribe"))
       ELSE Session_subscribe(h.session, topic)

\* int mqtt_unsubscribe(session, handle)
mqtt_unsubscribe(h, handle) ==
    IF InvalidHandle(h)
       THEN Rejected("mqtt_unsubscribe", h, InvalidHandleResult("mqtt_unsubscribe"))
       ELSE Session_unsubscribe(h.session, handle)

\* int64_t mqtt_publish(session, topic, payload, length, qos, retain)
mqtt_publish(h) ==
    IF InvalidHandle(h)
       THEN Rejected("mqtt_publish", h, InvalidHandleResult("mqtt_publish"))
       ELSE Session_publish(h.session)

\* ------------------------------------------- calls as sequences of statements
\* Two caller threads and the engine's thread inside the functions of one
\* Session at the same time.  Each action is one statement of the function a
\* thread is in; pc names the statement the thread is at.  A std::lock_guard
\* scope is two steps: taking stateMutex, then the guarded write together
\* with the release.
Callers == {"A", "B"}
bridgeVars == <<g_factory, instance_, refCount_, handles, g_session_handlers,
                g_message_handlers, config, g_mutex>>

Goto(t, label) == pc' = [pc EXCEPT ![t] = label]
Return(t) == pc' = [pc EXCEPT ![t] = "idle"] /\ loc' = [loc EXCEPT ![t] = NoLocals]

\* The statements that take stateMutex, by function
LockLabels == {"start_connecting", "start_failed", "start_connected",
               "stop_disconnected", "lost_reconnecting"}

\* std::lock_guard<std::mutex> lock(impl->stateMutex)
lock(t) ==
    /\ pc[t] \in LockLabels
    /\ stateMutex = "free"
    /\ stateMutex' = t
    /\ last' = Obs("lock", loc[t].s, t, "-", <<>>, <<>>)
    /\ UNCHANGED <<bridgeVars, clientVars, hist, impl, engine, pc, loc, pending, issued>>

\* currentState = st inside the lock_guard scope, and the end of the scope;
\* a write that the function follows with onStateChange(st) joins pending.
\* variant: the lock is kept after the write, over the notification
GuardedWriteKeepsLock(t, st, notified, next) ==
    /\ stateMutex = t
    /\ stateMutex' = t
    /\ impl' = [impl EXCEPT ![loc[t].s].currentState = st]
    /\ pending' = IF notified /\ impl[loc[t].s].sessionHandler
                     THEN Append(pending, [thread |-> t, state |-> st])
                     ELSE pending
    /\ Goto(t, next)
    /\ last' = Obs("write", loc[t].s, t, "-", <<>>, <<>>)
    /\ UNCHANGED <<bridgeVars, clientVars, hist, engine, loc, issued>>
GuardedWrite(t, st, notified, next) ==
    /\ stateMutex = t
    /\ stateMutex' = "free"
    /\ impl' = [impl EXCEPT ![loc[t].s].currentState = st]
    /\ pending' = IF notified /\ impl[loc[t].s].sessionHandler
                     THEN Append(pending, [thread |-> t, state |-> st])
                     ELSE pending
    /\ Goto(t, next)
    /\ last' = Obs("write", loc[t].s, t, "-", <<>>, <<>>)
    /\ UNCHANGED <<bridgeVars, clientVars, hist, engine, loc, issued>>

\* if (sessionHandler) sessionHandler->onStateChange(st), followed by notes
\* more handler calls, then the return of the function with ret
Notify(t, op, st, more, ret) ==
    /\ pending' = SelectSeq(pending, LAMBDA w : w.thread # t)
    /\ Return(t)
    /\ last' = Obs(op, loc[t].s, t, ret, <<>>,
                   IF impl[loc[t].s].sessionHandler
                      THEN <<StateNote(st)>> \o more ELSE <<>>)
    /\ UNCHANGED <<bridgeVars, clientVars, hist, impl, engine, stateMutex, issued>>

\* Session::start up to MQTTClient_setCallbacks
start_create(t, s) ==
    /\ pc[t] = "idle"
    /\ Live(s)
    /\ LET im == impl[s] IN
       IF config[s].broker = ""
          THEN /\ last' = Obs("start", s, t, FALSE, <<>>, EmptyBrokerNotes(im))
               /\ UNCHANGED <<impl, engine, pc, loc>>
          ELSE /\ ClientCount < MaxClients
               /\ \/ \E rcCreate \in EngineFailures :
                       /\ last' = Obs("start", s, t, FALSE,
                                      <<Call("create", rcCreate)>>,
                                      StartNotes(im, rcCreate, MQTTCLIENT_SUCCESS))
                       /\ UNCHANGED <<impl, engine, pc, loc>>
                  \/ /\ impl' = [impl EXCEPT ![s].client = TRUE]
                     /\ engine' = [engine EXCEPT ![s] = EngineCreate(@)]
                     /\ Goto(t, "start_connecting")
                     /\ loc' = [loc EXCEPT ![t] = [NoLocals EXCEPT !.s = s]]
                     /\ last' = Obs("start", s, t, "-",
                                    <<Call("create", 0), Call("setCallbacks", 0)>>,
                                    <<>>)
    /\ hist' = [hist EXCEPT ![s].started = TRUE]
    /\ UNCHANGED <<bridgeVars, clientVars, stateMutex, pending, issued>>

\* { lock; currentState = CONNECTING; }
start_connecting(t) ==
    /\ pc[t] = "start_connecting"
    /\ GuardedWrite(t, StartWrites(MQTTCLIENT_SUCCESS)[1], FALSE, "start_connect")

\* rc = MQTTClient_connect(client, &conn_opts), and onError when it fails
start_connect(t) ==
    /\ pc[t] = "start_connect"
    /\ LET s == loc[t].s IN
       \E rcConnect \in CallResults :
          /\ engine' = [engine EXCEPT ![s].held =
                           IF rcConnect = MQTTCLIENT_SUCCESS THEN "connected" ELSE @]
          /\ Goto(t, IF rcConnect = MQTTCLIENT_SUCCESS
                        THEN "start_connected" ELSE "start_failed")
          /\ last' = Obs("start", s, t, "-", <<Call("connect", rcConnect)>>,
                         IF rcConnect = MQTTCLIENT_SUCCESS
                            THEN <<>>
                            ELSE StartNotes(impl[s], MQTTCLIENT_SUCCESS, rcConnect))
    /\ UNCHANGED <<bridgeVars, clientVars, hist, impl, loc, stateMutex, pending, issued>>

\* { lock; currentState = DISCONNECTED; } return false;
start_failed(t) ==
    /\ pc[t] = "start_failed"
    /\ stateMutex = t
    /\ stateMutex' = "free"
    /\ impl' = [impl EXCEPT ![loc[t].s].currentState = StartWrites(-1)[2]]
    /\ Return(t)
    /\ last' = Obs("start", loc[t].s, t, FALSE, <<>>, <<>>)
    /\ UNCHANGED <<bridgeVars, clientVars, hist, engine, pending, issued>>

\* { lock; currentState = CONNECTED; }
start_connected(t) ==
    /\ pc[t] = "start_connected"
    /\ GuardedWrite(t, StartWrites(MQTTCLIENT_SUCCESS)[2], TRUE, "start_notify")

\* onStateChange(CONNECTED); return true;
start_notify(t) ==
    /\ pc[t] = "start_notify"
    /\ Notify(t, "start", CONNECTED, <<>>, TRUE)

\* Session::stop: MQTTClient_disconnect and MQTTClient_destroy, or return true
\* at once without a client
stop_disconnect(t, s) ==
    /\ pc[t] = "idle"
    /\ Live(s)
    /\ LET im == impl[s] IN
       /\ impl' = [impl EXCEPT ![s].client = FALSE]
       /\ engine' = StopEngine(s)
       /\ IF im.client
             THEN /\ Goto(t, "stop_disconnected")
                  /\ loc' = [loc EXCEPT ![t] = [NoLocals EXCEPT !.s = s]]
                  /\ \E rc \in EngineResults(s) :
                        last' = Obs("stop", s, t, "-", StopEngineCalls(im, rc), <<>>)
             ELSE /\ UNCHANGED <<pc, loc>>
                  /\ last' = Obs("stop", s, t, TRUE, <<>>, <<>>)
    /\ UNCHANGED <<bridgeVars, clientVars, hist, stateMutex, pending, issued>>

\* { lock; currentState = DISCONNECTED; }
stop_disconnected(t) ==
    /\ pc[t] = "stop_disconnected"
    /\ GuardedWrite(t, DISCONNECTED, TRUE, "stop_notify")

\* onStateChange(DISCONNECTED); return true;
stop_notify(t) ==
    /\ pc[t] = "stop_notify"
    /\ Notify(t, "stop", DISCONNECTED, <<>>, TRUE)

\* The engine's thread enters Session::Impl::onConnectionLost for a client of
\* context s that has lost its connection.
lost_enter(t, s, held) ==
    /\ pc[t] = "idle"
    /\ Live(s)
    /\ HasConnected(s, held)
    /\ engine' = [engine EXCEPT ![s] = EngineLost(@, held)]
    /\ Goto(t, "lost_reconnecting")
    /\ loc' = [loc EXCEPT ![t] = [NoLocals EXCEPT !.s = s]]
    /\ last' = Obs("onConnectionLost", s, t, "-", <<>>, <<>>)
    /\ UNCHANGED <<bridgeVars, clientVars, hist, impl, stateMutex, pending, issued>>

\* { lock; currentState = RECONNECTING; }
lost_reconnecting(t) ==
    /\ pc[t] = "lost_reconnecting"
    /\ GuardedWrite(t, RECONNECTING, TRUE, "lost_notify")

\* onStateChange(RECONNECTING); onError(-1, cause ? cause : "Connection lost");
lost_notify(t, cause) ==
    /\ pc[t] = "lost_notify"
    /\ Notify(t, "onConnectionLost", RECONNECTING,
              <<ErrorNoteText(-1, CauseText(cause))>>, "void")

\* Session::subscribe: MQTTClient_subscribe, and the return of -1 when it fails
subscribe_call(t, s, topic) ==
    /\ pc[t] = "idle"
    /\ Live(s)
    /\ impl[s].nextSubHandle <= MaxSubs
    /\ \E rc \in EngineResults(s) :
          IF rc # MQTTCLIENT_SUCCESS
             THEN /\ last' = Obs("subscribe", s, t, -1, <<Call("subscribe", rc)>>,
                                 ErrorNotes(impl[s], rc))
                  /\ UNCHANGED <<pc, loc>>
             ELSE /\ Goto(t, "subscribe_read")
                  /\ loc' = [loc EXCEPT ![t] = [NoLocals EXCEPT !.s = s,
                                                                !.topic = topic]]
                  /\ last' = Obs("subscribe", s, t, "-", <<Call("subscribe", rc)>>,
                                 <<>>)
    /\ UNCHANGED <<bridgeVars, clientVars, hist, impl, engine, stateMutex, pending, issued>>

\* int64_t handle = impl_->nextSubHandle++, the read
subscribe_read(t) ==
    /\ pc[t] = "subscribe_read"
    /\ loc' = [loc EXCEPT ![t].handle = impl[loc[t].s].nextSubHandle]
    /\ Goto(t, "subscribe_increment")
    /\ last' = Obs("read", loc[t].s, t, "-", <<>>, <<>>)
    /\ UNCHANGED <<bridgeVars, clientVars, hist, impl, engine, stateMutex, pending, issued>>

\* int64_t handle = impl_->nextSubHandle++, the write
subscribe_increment(t) ==
    /\ pc[t] = "subscribe_increment"
    /\ impl' = [impl EXCEPT ![loc[t].s].nextSubHandle = loc[t].handle + 1]
    /\ Goto(t, "subscribe_insert")
    /\ last' = Obs("increment", loc[t].s, t, "-", <<>>, <<>>)
    /\ UNCHANGED <<bridgeVars, clientVars, hist, engine, loc, stateMutex, pending, issued>>

\* impl_->subscriptions[handle] = topic; return handle;
subscribe_insert(t) ==
    /\ pc[t] = "subscribe_insert"
    /\ LET s == loc[t].s
           handle == loc[t].handle
       IN /\ impl' = [impl EXCEPT ![s].subscriptions = Put(@, handle, loc[t].topic)]
          /\ issued' = [returned |-> issued.returned \cup {handle},
                        open |-> issued.open \cup {handle}]
          /\ hist' = [hist EXCEPT ![s].handle = IF handle > @ THEN handle ELSE @]
          /\ last' = Obs("subscribe", s, t, handle, <<>>, <<>>)
    /\ Return(t)
    /\ UNCHANGED <<bridgeVars, clientVars, engine, stateMutex, pending>>

\* Session::unsubscribe: auto it = subscriptions.find(handle), and the return
\* of false when it is end()
unsubscribe_find(t, s, handle) ==
    /\ pc[t] = "idle"
    /\ Live(s)
    /\ IF ~Found(impl[s], handle)
          THEN /\ last' = Obs("unsubscribe", s, t, FALSE, <<>>, <<>>)
               /\ UNCHANGED <<pc, loc>>
          ELSE /\ Goto(t, "unsubscribe_call")
               /\ loc' = [loc EXCEPT ![t] =
                             [NoLocals EXCEPT !.s = s, !.handle = handle,
                                !.topic = Find(impl[s].subscriptions, handle)[2]]]
               /\ last' = Obs("find", s, t, "-", <<>>, <<>>)
    /\ UNCHANGED <<bridgeVars, clientVars, hist, impl, engine, stateMutex, pending, issued>>

\* rc = MQTTClient_unsubscribe(client, it->second.c_str()), and the return of
\* false when it fails
unsubscribe_call(t) ==
    /\ pc[t] = "unsubscribe_call"
    /\ LET s == loc[t].s IN
       \E rc \in EngineResults(s) :
          IF rc # MQTTCLIENT_SUCCESS
             THEN /\ last' = Obs("unsubscribe", s, t, FALSE,
                                 <<Call("unsubscribe", rc)>>, ErrorNotes(impl[s], rc))
                  /\ Return(t)
             ELSE /\ last' = Obs("unsubscribe", s, t, "-",
                                 <<Call("unsubscribe", rc)>>, <<>>)
                  /\ Goto(t, "unsubscribe_erase")
                  /\ UNCHANGED loc
    /\ UNCHANGED <<bridgeVars, clientVars, hist, impl, engine, stateMutex, pending, issued>>

\* impl_->subscriptions.erase(it); return true;  When another thread has
\* erased the entry since the find, it is an invalidated iterator: the erase
\* may go unnoticed or the process faults.
unsubscribe_erase(t) ==
    /\ pc[t] = "unsubscribe_erase"
    /\ LET s == loc[t].s
           handle == loc[t].handle
       IN \/ /\ impl' = [impl EXCEPT ![s] = UnsubscribeImpl(@, handle)]
             /\ issued' = [issued EXCEPT !.open = @ \ {handle}]
             /\ last' = Obs("unsubscribe", s, t, TRUE, <<>>, <<>>)
             /\ Return(t)
          \/ /\ ~Found(impl[s], handle)
             /\ last' = Obs("unsubscribe", s, t, "fault", <<>>, <<>>)
             /\ pc' = [x \in Threads |-> "fault"]
             /\ UNCHANGED <<impl, loc, issued>>
    /\ UNCHANGED <<bridgeVars, clientVars, hist, engine, stateMutex, pending>>

\* ------------------------------------------------ the binding's trampolines
\* The extern "C" functions the Rust binding registers as message, state and
\* error callback, with the Arc<Mutex<CallbackContext>> of the Client as
\* user context.  The adapters of the C API call them on the thread the
\* Session notifies on: a caller thread inside start / stop / subscribe /
\* publish, or the engine's thread inside onConnectionLost / onMessageCallback.
\* The message the Session passes to onError is never null.
Closures == {"message_callback", "state_callback", "error_callback"}

\* context.lock(): returns the guard once no other thread holds the mutex
\* variant: the guard is taken without waiting for the holder
lock_contextNoWait(t) == callbacks' = t
lock_context(t) == callbacks = "free" /\ callbacks' = t

\* One statement of the trampoline of closure c on thread t: entry with the
\* context pointer, if let Ok(guard) = context.lock(), the call of the
\* closure, its return, and the end of the if let block, which drops the guard.
Trampoline(t, c) ==
    /\ \/ /\ pc[t] = "idle"
          /\ Goto(t, "context_lock")
          /\ entered' = [entered EXCEPT ![t] = c]
          /\ UNCHANGED <<callbacks, running>>
       \/ /\ pc[t] = "context_lock" /\ entered[t] = c
          /\ lock_context(t)
          /\ Goto(t, "closure_call")
          /\ UNCHANGED <<entered, running>>
       \/ /\ pc[t] = "closure_call" /\ entered[t] = c
          /\ running' = running \cup {[thread |-> t, closure |-> c]}
          /\ Goto(t, "closure_return")
          /\ UNCHANGED <<callbacks, entered>>
       \/ /\ pc[t] = "closure_return" /\ entered[t] = c
          /\ running' = running \ {[thread |-> t, closure |-> c]}
          /\ Goto(t, "guard_drop")
          /\ UNCHANGED <<callbacks, entered>>
       \/ /\ pc[t] = "guard_drop" /\ entered[t] = c
          /\ callbacks' = "free"
          /\ Goto(t, "idle")
          /\ entered' = [entered EXCEPT ![t] = "-"]
          /\ UNCHANGED running
    /\ UNCHANGED <<bridgeVars, hist, impl, engine, last, loc, stateMutex, pending,
                   issued>>

\* unsafe extern "C" fn message_callback(message, context)
message_callback(t) == Trampoline(t, "message_callback")
\* unsafe extern "C" fn error_callback(error_code, message, context)
error_callback(t) == Trampoline(t, "error_callback")
\* the trampoline registered as state callback
state_callback(t) == Trampoline(t, "state_callback")

\* ------------------------------------------ the registry mutex of the bridge
\* mqtt_initialize, mqtt_uninitialize, mqtt_create_session and
\* mqtt_destroy_session as sequences of statements: each holds g_mutex from
\* its std::lock_guard to its return, and mqtt_destroy_session calls
\* Session::stop, whose notification runs the state callback of the
\* application on the calling thread, inside that scope.
RegistryFunctions ==
    {"mqtt_initialize", "mqtt_uninitialize", "mqtt_create_session",
     "mqtt_destroy_session"}

\* std::mutex::lock() by the thread that owns the mutex is undefined in the
\* language; on the platforms the library is built for (macOS and Linux)
\* std::mutex is a default pthread mutex, whose owner waits on itself.
RelockOutcomes == {"blocked"}

\* A thread that is in no call, or the state callback running on a thread
\* inside mqtt_destroy_session, calls fn; mqtt_destroy_session gets the
\* handle of a live session that no other thread is destroying and goes past
\* if (!session) return;
registry_call(t, fn, s) ==
    /\ pc[t] \in {"idle", "state_cb"}
    /\ fn = "mqtt_destroy_session"
          => /\ s \in Sessions
             /\ Live(s)
             /\ \A u \in Threads \ {t} :
                   ~(loc[u].fn = "mqtt_destroy_session" /\ loc[u].s = s)
    /\ fn # "mqtt_destroy_session" => s = loc[t].s
    /\ loc' = [loc EXCEPT ![t] = [@ EXCEPT !.fn = fn, !.s = s]]
    /\ Goto(t, "registry_lock")
    /\ last' = Obs(fn, s, t, "-", <<>>, <<>>)
    /\ UNCHANGED <<g_factory, instance_, refCount_, handles, g_session_handlers,
                   g_message_handlers, config, g_mutex, clientVars, hist, impl,
                   engine, stateMutex, pending, issued>>

\* std::lock_guard<std::mutex> lock(g_mutex): waits while another thread
\* holds the mutex
\* variant: the owner takes the mutex again, as with a recursive mutex
registry_lockRecursive(t) ==
    /\ pc[t] = "registry_lock"
    /\ g_mutex \in {"free", t}
    /\ g_mutex' = t
    /\ Goto(t, IF loc[t].fn = "mqtt_destroy_session"
                  THEN "destroy_stop" ELSE "registry_body")
    /\ last' = Obs("g_mutex", loc[t].s, t, "-", <<>>, <<>>)
    /\ UNCHANGED <<g_factory, instance_, refCount_, handles, g_session_handlers,
                   g_message_handlers, config, clientVars, hist, impl, engine, loc,
                   stateMutex, pending, issued>>
registry_lock(t) ==
    /\ pc[t] = "registry_lock"
    /\ IF g_mutex = t
          THEN /\ \E outcome \in RelockOutcomes : Goto(t, outcome)
               /\ UNCHANGED g_mutex
          ELSE /\ g_mutex = "free"
               /\ g_mutex' = t
               /\ Goto(t, IF loc[t].fn = "mqtt_destroy_session"
                             THEN "destroy_stop" ELSE "registry_body")
    /\ last' = Obs("g_mutex", loc[t].s, t, "-", <<>>, <<>>)
    /\ UNCHANGED <<g_factory, instance_, refCount_, handles, g_session_handlers,
                   g_message_handlers, config, clientVars, hist, impl, engine, loc,
                   stateMutex, pending, issued>>

\* The statements of mqtt_initialize, mqtt_uninitialize and
\* mqtt_create_session after the lock_guard, and the return, which ends the
\* scope of the lock_guard
registry_body(t) ==
    /\ pc[t] = "registry_body"
    /\ g_mutex = t
    /\ g_mutex' = "free"
    /\ Return(t)
    /\ \/ /\ loc[t].fn = "mqtt_initialize"
          /\ IF ~g_factory
                THEN getInstance /\ g_factory' = TRUE
                ELSE UNCHANGED <<g_factory, instance_, refCount_>>
          /\ last' = Obs("mqtt_initialize", 0, t, 0, <<>>, <<>>)
          /\ UNCHANGED <<handles, g_session_handlers, g_message_handlers, impl,
                         config, hist>>
       \/ /\ loc[t].fn = "mqtt_uninitialize"
          /\ IF g_factory
                THEN uninitialize /\ g_factory' = FALSE
                ELSE UNCHANGED <<g_factory, instance_, refCount_>>
          /\ last' = Obs("mqtt_uninitialize", 0, t, 0, <<>>, <<>>)
          /\ UNCHANGED <<handles, g_session_handlers, g_message_handlers, impl,
                         config, hist>>
       \/ /\ loc[t].fn = "mqtt_create_session"
          /\ \E message_cb \in BOOLEAN :
                IF NoFactory
                   THEN /\ last' = Obs("mqtt_create_session", 0, t, "null", <<>>, <<>>)
                        /\ UNCHANGED <<handles, g_session_handlers,
                                       g_message_handlers, impl, config, hist>>
                   ELSE /\ UnusedSessions # {}
                        /\ LET s == NewSession IN
                           /\ impl' = [impl EXCEPT ![s] =
                                          [NewImpl EXCEPT !.msgHandler = message_cb]]
                           /\ config' = [config EXCEPT ![s] = NewConfig]
                           /\ handles' = [handles EXCEPT ![s] =
                                 [status |-> "live", session |-> s,
                                  message_cb |-> message_cb]]
                           /\ g_message_handlers' = CreateMessageHandlers(s, message_cb)
                           /\ g_session_handlers' = CreateSessionHandlers(s)
                           /\ hist' = [hist EXCEPT ![s] = NewHist]
                           /\ last' = Obs("mqtt_create_session", s, t, "handle",
                                          <<>>, <<>>)
          /\ UNCHANGED <<g_factory, instance_, refCount_>>
    /\ UNCHANGED <<clientVars, engine, stateMutex, pending, issued>>

\* session->session->stop() in mqtt_destroy_session, up to its
\* onStateChange(DISCONNECTED): the adapter calls state_cb_, the state
\* callback of the application, which runs on this thread from here on
destroy_stop(t) ==
    /\ pc[t] = "destroy_stop"
    /\ LET s == loc[t].s
           im == impl[s]
       IN  /\ engine' = StopEngine(s)
           /\ impl' = [impl EXCEPT ![s] = StopImpl(im)]
           /\ \E rc \in EngineResults(s) :
                 last' = Obs("stop", s, t, "-", StopEngineCalls(im, rc), StopNotes(im))
           /\ Goto(t, IF StopNotes(im) # <<>> THEN "state_cb" ELSE "destroy_erase")
    /\ UNCHANGED <<g_factory, instance_, refCount_, handles, g_session_handlers,
                   g_message_handlers, config, g_mutex, clientVars, hist, loc,
                   stateMutex, pending, issued>>

\* The state callback returns, and stop() after it
state_cb_return(t) ==
    /\ pc[t] = "state_cb"
    /\ Goto(t, "destroy_erase")
    /\ last' = Obs("state_cb", loc[t].s, t, "void", <<>>, <<>>)
    /\ UNCHANGED <<g_factory, instance_, refCount_, handles, g_session_handlers,
                   g_message_handlers, config, g_mutex, clientVars, hist, impl,
                   engine, loc, stateMutex, pending, issued>>

\* The rest of mqtt_destroy_session: the two erase calls, destroySession when
\* there is a factory, delete session, and the return
destroy_erase(t) ==
    /\ pc[t] = "destroy_erase"
    /\ g_mutex = t
    /\ g_mutex' = "free"
    /\ LET s == loc[t].s IN
       /\ impl' = [impl EXCEPT ![s] = DestroyImpl(impl[s])]
       /\ config' = [config EXCEPT ![s] = DestroyConfig(config[s])]
       /\ g_message_handlers' = EraseMessageHandlers(s)
       /\ g_session_handlers' = EraseSessionHandlers(s)
       /\ handles' = [handles EXCEPT ![s] =
                         [status |-> "freed", session |-> 0, message_cb |-> FALSE]]
       /\ hist' = [hist EXCEPT ![s] = NewHist]
       /\ last' = Obs("mqtt_destroy_session", s, t, "void", <<>>, <<>>)
    /\ Return(t)
    /\ UNCHANGED <<g_factory, instance_, refCount_, clientVars, engine, stateMutex,
                   pending, issued>>

\* ------------------------------------------------------------ specification
Next ==
    \/ mqtt_initialize
    \/ mqtt_uninitialize
    \/ \E message_cb \in BOOLEAN : mqtt_create_session(message_cb)
    \/ \E s \in Sessions : mqtt_destroy_session(s)
    \/ \E s \in Sessions, url \in Urls, port \in Ports : mqtt_set_broker(s, url, port)
    \/ \E s \in Sessions : Session_start(s)
    \/ \E s \in Sessions : Session_stop(s)
    \/ \E s \in Sessions, held \in BOOLEAN, cause \in Causes :
          onConnectionLost(s, held, cause)
    \/ \E s \in Sessions, held \in BOOLEAN : onMessageCallback(s, held)

Spec == Init /\ [][Next]_vars

\* One session after mqtt_initialize, mqtt_create_session with a message
\* callback and mqtt_set_broker("test.broker", 1883): a state Spec reaches.
InitSession ==
    /\ NoThreads
    /\ g_factory = TRUE
    /\ instance_ = TRUE
    /\ refCount_ = 1
    /\ handles = [s \in Sessions |->
          IF s = 1 THEN [status |-> "live", session |-> 1, message_cb |-> TRUE]
                   ELSE NoHandle]
    /\ g_session_handlers = {1}
    /\ g_message_handlers = {1}
    /\ impl = [s \in Sessions |->
          IF s = 1 THEN [NewImpl EXCEPT !.msgHandler = TRUE] ELSE NoImpl]
    /\ config = [s \in Sessions |->
          IF s = 1 THEN setBroker(NewConfig, "test.broker", 1883) ELSE NewConfig]
    /\ engine = [s \in Sessions |-> NoClients]
    /\ hist = [s \in Sessions |-> NewHist]
    /\ last = Obs("mqtt_set_broker", 1, 0, 0, <<>>, <<>>)

\* The calls of one session and the events of its clients
NextPubSub ==
    \/ \E s \in Sessions : Session_start(s)
    \/ \E s \in Sessions : Session_stop(s)
    \/ \E s \in Sessions, topic \in Topics : Session_subscribe(s, topic)
    \/ \E s \in Sessions, handle \in Handles : Session_unsubscribe(s, handle)
    \/ \E s \in Sessions : Session_publish(s)
    \/ \E s \in Sessions, handler \in BOOLEAN : Session_setSessionHandler(s, handler)
    \/ \E s \in Sessions, held \in BOOLEAN, cause \in Causes :
          onConnectionLost(s, held, cause)

SpecPubSub == InitSession /\ [][NextPubSub]_vars

\* The configuration calls of one session
NextConfig ==
    \/ \E s \in Sessions, param \in Parameter, value \in IntValues :
          mqtt_set_int_parameter(s, param, value)
    \/ \E s \in Sessions, param \in Parameter, value \in {0, 1} :
          mqtt_set_bool_parameter(s, param, value)
    \/ \E s \in Sessions, u \in Names, pw \in Names : mqtt_set_credentials(s, u, pw)
    \/ \E s \in Sessions, ca \in Paths, cert \in Paths, key \in Paths :
          mqtt_set_tls_certificates(s, ca, cert, key)

SpecConfig == InitSession /\ [][NextConfig]_vars

\* The functions of the C API that take a session handle, each given the null
\* pointer, a record without a session, or the handle of the session
NextHandles ==
    \/ \E h \in HandleArgs : mqtt_set_int_parameter_any(h, "KEEP_ALIVE_INTERVAL", 7)
    \/ \E h \in HandleArgs : mqtt_set_bool_parameter_any(h, "TLS_ENABLED", 1)
    \/ \E h \in HandleArgs : mqtt_set_broker_any(h, "test.broker", 1883)
    \/ \E h \in HandleArgs : mqtt_set_credentials_any(h, "null", "null")
    \/ \E h \in HandleArgs : mqtt_set_tls_certificates_any(h, "null", "null", "null")
    \/ \E h \in HandleArgs : mqtt_destroy_session_any(h)
    \/ \E h \in HandleArgs : mqtt_session_get_state(h)
    \/ \E h \in HandleArgs : mqtt_session_start(h)
    \/ \E h \in HandleArgs : mqtt_session_stop(h)
    \/ \E h \in HandleArgs : mqtt_subscribe(h, "t1")
    \/ \E h \in HandleArgs : mqtt_unsubscribe(h, 1)
    \/ \E h \in HandleArgs : mqtt_publish(h)

SpecHandles == InitSession /\ [][NextHandles]_vars


\* The session of InitSession after a Session_start that connected
InitConnected ==
    /\ NoThreads
    /\ g_factory = TRUE
    /\ instance_ = TRUE
    /\ refCount_ = 1
    /\ handles = [s \in Sessions |->
          IF s = 1 THEN [status |-> "live", session |-> 1, message_cb |-> TRUE]
                   ELSE NoHandle]
    /\ g_session_handlers = {1}
    /\ g_message_handlers = {1}
    /\ impl = [s \in Sessions |->
          IF s = 1 THEN StartImpl([NewImpl EXCEPT !.msgHandler = TRUE],
                                  MQTTCLIENT_SUCCESS)
                   ELSE NoImpl]
    /\ config = [s \in Sessions |->
          IF s = 1 THEN setBroker(NewConfig, "test.broker", 1883) ELSE NewConfig]
    /\ engine = [s \in Sessions |->
          IF s = 1 THEN [EngineCreate(NoClients) EXCEPT !.held = "connected"]
                   ELSE NoClients]
    /\ hist = [s \in Sessions |->
          IF s = 1 THEN [NewHist EXCEPT !.started = TRUE] ELSE NewHist]
    /\ last = Obs("start", 1, "A", TRUE, <<>>, <<StateNote(CONNECTED)>>)

\* Two threads in subscribe and unsubscribe of one connected session
NextTwoCallers ==
    \/ \E t \in Callers, s \in Sessions, topic \in Topics : subscribe_call(t, s, topic)
    \/ \E t \in Callers : subscribe_read(t)
    \/ \E t \in Callers : subscribe_increment(t)
    \/ \E t \in Callers : subscribe_insert(t)
    \/ \E t \in Callers, s \in Sessions, handle \in Handles :
          unsubscribe_find(t, s, handle)
    \/ \E t \in Callers : unsubscribe_call(t)
    \/ \E t \in Callers : unsubscribe_erase(t)

SpecTwoCallers == InitConnected /\ [][NextTwoCallers]_vars

\* One thread in start and stop of a session while the engine's thread
\* delivers the connection-lost events of its clients
NextCallerAndEngine ==
    \/ \E s \in Sessions : start_create("A", s)
    \/ start_connecting("A")
    \/ start_connect("A")
    \/ start_failed("A")
    \/ start_connected("A")
    \/ start_notify("A")
    \/ \E s \in Sessions : stop_disconnect("A", s)
    \/ stop_disconnected("A")
    \/ stop_notify("A")
    \/ \E s \in Sessions, held \in BOOLEAN : lost_enter("E", s, held)
    \/ lost_reconnecting("E")
    \/ \E cause \in Causes : lost_notify("E", cause)
    \/ \E t \in {"A", "E"} : lock(t)

SpecCallerAndEngine == InitSession /\ [][NextCallerAndEngine]_vars

\* The factory used through the C API and by the application itself
NextFactory ==
    \/ APIFactory_getInstance
    \/ APIFactory_uninitialize
    \/ mqtt_initialize
    \/ mqtt_uninitialize
    \/ \E message_cb \in BOOLEAN : mqtt_create_session(message_cb)
    \/ \E s \in Sessions : mqtt_destroy_session(s)

SpecFactory == Init /\ [][NextFactory]_vars


\* The C API driven through the Rust binding, whose Client releases its
\* session in Drop.
NextClient ==
    \/ Next
    \/ \E s \in Sessions : Client_drop(s)

SpecClient == Init /\ [][NextClient]_vars


\* The trampolines of one connected client: the engine's thread delivers
\* messages, state changes and errors while the caller threads, inside calls
\* of the Session, deliver state changes and errors.
NextTrampolines ==
    \/ message_callback("E")
    \/ \E t \in Threads : state_callback(t)
    \/ \E t \in Threads : error_callback(t)

SpecTrampolines == InitConnected /\ [][NextTrampolines]_vars

\* A session created before mqtt_uninitialize, used through its handle after
\* it: the C functions of a session, mqtt_uninitialize and mqtt_destroy_session.
NextAfterUninitialize ==
    \/ mqtt_uninitialize
    \/ \E h \in HandleArgs : mqtt_session_start(h)
    \/ \E h \in HandleArgs : mqtt_session_stop(h)
    \/ \E h \in HandleArgs : mqtt_subscribe(h, "t1")
    \/ \E h \in HandleArgs : mqtt_publish(h)
    \/ \E h \in HandleArgs : mqtt_destroy_session_any(h)

SpecAfterUninitialize == InitSession /\ [][NextAfterUninitialize]_vars

\* The four functions of the bridge that take g_mutex, called from two
\* threads and from the state callback that mqtt_destroy_session's stop()
\* runs; Session::stop called on its own makes sessions without a client.
NextRegistryMutex ==
    \/ \E t \in Callers, fn \in RegistryFunctions, s \in Sessions \cup {0} :
          registry_call(t, fn, s)
    \/ \E t \in Callers : registry_lock(t)
    \/ \E t \in Callers : registry_body(t)
    \/ \E t \in Callers : destroy_stop(t)
    \/ \E t \in Callers : state_cb_return(t)
    \/ \E t \in Callers : destroy_erase(t)
    \/ \E s \in Sessions : Session_stop(s)

SpecRegistryMutex == InitConnected /\ [][NextRegistryMutex]_vars

\* ==================================================================== claims
StateNotesOf(notes) == SelectSeq(notes, LAMBDA n : n.cb = "onStateChange")
ErrorNotesOf(notes) == SelectSeq(notes, LAMBDA n : n.cb = "onError")
StatesOf(notes) == [i \in DOMAIN StateNotesOf(notes) |-> StateNotesOf(notes)[i].state]
IsEvent(op) == op \in {"onConnectionLost", "onMessageCallback"}

\* C1: once mqtt_destroy_session has returned for a session (its stop ran
\* before the adapters were erased), no message, state or error callback of
\* that session is invoked again by an engine event.
C1_NoCallbackAfterDestroy ==
    (IsEvent(last.op) /\ handles[last.s].status = "freed") => last.notes = <<>>

\* C2: a start() with a non-empty broker whose create and connect succeed
\* delivers exactly the state notifications [Connecting, Connected].
C2_StartSequence ==
    (last.op = "start" /\ last.ret = TRUE)
        => StatesOf(last.notes) = <<CONNECTING, CONNECTED>>

\* C4: every start() that returns false has invoked onError at least once.
C4_FailedStartReported ==
    (last.op = "start" /\ last.ret = FALSE) => ErrorNotesOf(last.notes) # <<>>

\* C5: a session on which start was never called is Disconnected, and stop on
\* it returns success, issues no engine call, changes no session state and
\* delivers no notification.
C5_NeverStarted ==
    /\ [](\A s \in Sessions :
            (Live(s) /\ ~hist[s].started) => getState(s) = DISCONNECTED)
    /\ [][\A s \in Sessions :
            (Live(s) /\ ~hist[s].started /\ last'.op = "stop" /\ last'.s = s)
               => /\ last'.ret = TRUE
                  /\ last'.eng = <<>>
                  /\ last'.notes = <<>>
                  /\ impl'[s] = impl[s]
                  /\ engine' = engine]_vars

C5_Witness ==
    /\ last.op = "stop"
    /\ Live(last.s)
    /\ ~hist[last.s].started
    /\ config[last.s].broker # ""

\* C6: mqtt_create_session with no global initialization in effect (the
\* factory reference count is 0) returns a null handle, creates no session and
\* adds nothing to the adapter registries.
C6_CreateNeedsInit ==
    [][(last'.op = "mqtt_create_session" /\ refCount_ = 0)
          => /\ last'.ret = "null"
             /\ UNCHANGED <<handles, impl, g_session_handlers, g_message_handlers>>
      ]_vars

\* a null handle returned after mqtt_uninitialize, while an earlier session lives
C6_Witness ==
    /\ last.op = "mqtt_create_session"
    /\ last.ret = "null"
    /\ \E s \in Sessions : Live(s)

\* C3: an engine failure of connect, subscribe, unsubscribe or publish, with a
\* session handler set, makes the call return its failure sentinel and invoke
\* onError exactly once, with the engine's code.
Sentinel(op) == IF op \in {"start", "unsubscribe"} THEN FALSE ELSE -1
C3_EngineFailureReported ==
    \A i \in DOMAIN last.eng :
       ( /\ last.eng[i].call \in {"connect", "subscribe", "unsubscribe",
                                  "publishMessage"}
         /\ last.eng[i].rc # MQTTCLIENT_SUCCESS
         /\ impl[last.s].sessionHandler )
       => /\ last.ret = Sentinel(last.op)
          /\ ErrorNotesOf(last.notes) = <<ErrorNote(last.eng[i].rc)>>

\* the engine fails a publish on a connected client
C3_Witness ==
    /\ last.op = "publish"
    /\ last.eng = <<Call("publishMessage", -1)>>
    /\ engine[last.s].held = "connected"
    /\ impl[last.s].sessionHandler
    /\ last.ret = -1

\* C7: every handle a successful subscribe returns is greater than every handle
\* returned before in the session, and every id a successful publish returns is
\* greater than every id returned before.
C7_StrictlyIncreasing ==
    [][/\ (last'.op = "subscribe" /\ last'.ret # -1)
             => last'.ret > hist[last'.s].handle
       /\ (last'.op = "publish" /\ last'.ret # -1)
             => last'.ret > hist[last'.s].id]_vars

\* a resubscribe after the first handle was unsubscribed, publishes in between
C7_Witness ==
    /\ last.op = "subscribe"
    /\ last.ret = 2
    /\ Keys(impl[last.s].subscriptions) = {2}
    /\ hist[last.s].id = 2

\* C8 as stated: unsubscribe directly after a subscribe, with the handle that
\* subscribe returned, returns success and leaves neither the handle nor its
\* topic in the subscription table.
C8_SubscribeThenUnsubscribe ==
    [][(/\ last.op = "subscribe"
        /\ last.ret # -1
        /\ last'.op = "unsubscribe"
        /\ last'.s = last.s
        /\ last'.arg = last.ret)
          => /\ last'.ret = TRUE
             /\ last.ret \notin Keys(impl'[last.s].subscriptions)
             /\ last.arg \notin Values(impl'[last.s].subscriptions)]_vars

\* C8 amended: when subscribe returned a handle, the unsubscribe issues one
\* engine unsubscribe; if the engine accepts it, unsubscribe returns success and
\* removes exactly the entry of that handle; otherwise it returns failure and
\* the table is unchanged.
C8_Amended ==
    [][(/\ last.op = "subscribe"
        /\ last.ret # -1
        /\ last'.op = "unsubscribe"
        /\ last'.s = last.s
        /\ last'.arg = last.ret)
          => /\ Len(last'.eng) = 1
             /\ last'.eng[1].call = "unsubscribe"
             /\ last'.ret = (last'.eng[1].rc = MQTTCLIENT_SUCCESS)
             /\ impl'[last.s].subscriptions =
                   IF last'.ret
                      THEN impl[last.s].subscriptions \ {<<last.ret, last.arg>>}
                      ELSE impl[last.s].subscriptions
             /\ last'.ret => last.ret \notin Keys(impl'[last.s].subscriptions)]_vars

\* the handle returned last has been unsubscribed with success
C8_Witness ==
    /\ last.op = "unsubscribe"
    /\ last.ret = TRUE
    /\ last.arg = hist[last.s].handle
    /\ last.arg \notin Keys(impl[last.s].subscriptions)

\* C9: unsubscribe with a handle that is no key of the subscription table
\* returns failure, reports no error, issues no engine call and leaves the
\* table and the handle counter unchanged.
C9_AbsentHandle ==
    [][(/\ last'.op = "unsubscribe"
        /\ last'.arg \notin Keys(impl[last'.s].subscriptions))
          => /\ last'.ret = FALSE
             /\ last'.notes = <<>>
             /\ last'.eng = <<>>
             /\ impl'[last'.s].subscriptions = impl[last'.s].subscriptions
             /\ impl'[last'.s].nextSubHandle = impl[last'.s].nextSubHandle]_vars

\* a handle that was issued and already unsubscribed, on a connected session
C9_Witness ==
    /\ last.op = "unsubscribe"
    /\ last.ret = FALSE
    /\ last.eng = <<>>
    /\ last.arg = 1
    /\ impl[last.s].nextSubHandle > 1
    /\ engine[last.s].held = "connected"

\* C10: directly after a call that sets the TLS certificate trio, the
\* TLS-enabled flag of that configuration is true.
C10_TlsEnabledAfterCertificates ==
    last.op = "mqtt_set_tls_certificates" => config[last.s].tlsEnabled

\* all three paths given as null or empty
C10_Witness ==
    /\ last.op = "mqtt_set_tls_certificates"
    /\ config[last.s].caFile = ""
    /\ config[last.s].certFile = ""
    /\ config[last.s].keyFile = ""

\* C11: on a valid handle, mqtt_set_int_parameter with a boolean-only code
\* (CLEAN_SESSION, TLS_ENABLED) and mqtt_set_bool_parameter with an
\* integer-only code leave every configuration field unchanged and return 0.
BoolOnlyCodes == {"CLEAN_SESSION", "TLS_ENABLED"}
IntOnlyCodes == Parameter \ BoolOnlyCodes
C11_WrongKindLeavesConfig ==
    [][( \/ (last'.op = "mqtt_set_int_parameter" /\ last'.arg \in BoolOnlyCodes)
         \/ (last'.op = "mqtt_set_bool_parameter" /\ last'.arg \in IntOnlyCodes) )
          => /\ config' = config
             /\ last'.ret = 0]_vars

\* the integer setter given TLS_ENABLED on a configuration that differs from
\* the defaults in a boolean and in an integer field
C11_Witness ==
    /\ last.op = "mqtt_set_int_parameter"
    /\ last.arg = "TLS_ENABLED"
    /\ config[last.s].cleanSession = FALSE
    /\ config[last.s].keepAliveInterval \in IntValues

\* C12: a publish on a connected session that the engine accepts returns a
\* positive message id, the value of the session's message-id counter when the
\* call began; when the session had no earlier publish that id is 1, however
\* many subscription handles were allocated.
C12_PublishReturnsCounter ==
    [][(/\ last'.op = "publish"
        /\ engine[last'.s].held = "connected"
        /\ last'.eng = <<Call("publishMessage", MQTTCLIENT_SUCCESS)>>)
          => /\ last'.ret > 0
             /\ last'.ret = impl[last'.s].nextMessageId
             /\ ~hist[last'.s].published => last'.ret = 1]_vars

\* the first publish of a session that has allocated every subscription handle
C12_Witness ==
    /\ last.op = "publish"
    /\ last.ret = 1
    /\ impl[last.s].nextMessageId = 2
    /\ impl[last.s].nextSubHandle = MaxSubs + 1

\* C13: the state of a session starts as Disconnected, and every change of it
\* is Disconnected->Connecting, Connecting->Connected, Connected->Reconnecting,
\* Connecting->Reconnecting, Reconnecting->Connecting, or a change to
\* Disconnected made by stop or by a start that fails; no other change occurs.
\* The values currentState takes during a step, from the value before it to
\* the value after it.
StatePath(s) ==
    <<impl[s].currentState>>
       \o (IF last'.op = "start" /\ last'.s = s /\ last'.arg = "connect"
              THEN StartWrites(last'.eng[3].rc) ELSE <<>>)
       \o <<impl'[s].currentState>>
SpecifiedEdges ==
    {<<DISCONNECTED, CONNECTING>>, <<CONNECTING, CONNECTED>>,
     <<CONNECTED, RECONNECTING>>, <<CONNECTING, RECONNECTING>>,
     <<RECONNECTING, CONNECTING>>}
SpecifiedChange(a, b) ==
    \/ a = b
    \/ <<a, b>> \in SpecifiedEdges
    \/ /\ b = DISCONNECTED
       /\ \/ last'.op = "stop"
          \/ last'.op = "start" /\ last'.ret = FALSE
C13_StateEdges ==
    /\ \A s \in Sessions : impl[s].alive = "none" => impl[s].currentState = DISCONNECTED
    /\ [][\A s \in Sessions :
            (Live(s) /\ Live(s)')
               => \A i \in 1..(Len(StatePath(s)) - 1) :
                     SpecifiedChange(StatePath(s)[i], StatePath(s)[i + 1])]_vars

\* C14: after any start() that returns false the state of the session is
\* Disconnected, whatever it was when start() was called and whatever made
\* the start fail.
C14_FailedStartDisconnected ==
    (last.op = "start" /\ last.ret = FALSE) => getState(last.s) = DISCONNECTED

\* C15: a stop() directly after an earlier stop() of the same session, with no
\* start in between, returns success, issues no engine disconnect or destroy,
\* does not change the state and delivers no state notification.
C15_StopIdempotent ==
    [][(last.op = "stop" /\ last'.op = "stop" /\ last'.s = last.s)
          => /\ last'.ret = TRUE
             /\ last'.eng = <<>>
             /\ StateNotesOf(last'.notes) = <<>>
             /\ getState(last.s)' = getState(last.s)
             /\ engine' = engine]_vars

\* a stop that did nothing on a session whose client an earlier stop had
\* disconnected and destroyed (the client of its first start is still there)
C15_Witness ==
    /\ last.op = "stop"
    /\ last.eng = <<>>
    /\ last.notes = <<>>
    /\ hist[last.s].started
    /\ ~impl[last.s].client
    /\ engine[last.s].held = "none"
    /\ engine[last.s].connected > 0

\* C16: every function of the C API that takes a session handle, given the
\* null pointer or a record whose session member is null, calls nothing in the
\* Domain Model and returns -1, or Disconnected for mqtt_session_get_state;
\* mqtt_destroy_session given the null pointer does nothing.
HandleFunctions ==
    {"mqtt_set_int_parameter", "mqtt_set_bool_parameter", "mqtt_set_broker",
     "mqtt_set_credentials", "mqtt_set_tls_certificates", "mqtt_session_start",
     "mqtt_session_stop", "mqtt_subscribe", "mqtt_unsubscribe", "mqtt_publish",
     "mqtt_session_get_state"}
C16_InvalidHandleRejected ==
    [][( \/ /\ last'.op \in {"null handle", "null session"}
            /\ last'.arg \in HandleFunctions
         \/ /\ last'.op = "null handle"
            /\ last'.arg = "mqtt_destroy_session" )
          => /\ CASE last'.arg = "mqtt_session_get_state" -> last'.ret = DISCONNECTED
                  [] last'.arg = "mqtt_destroy_session" -> last'.ret = "void"
                  [] OTHER -> last'.ret = -1
             /\ last'.eng = <<>>
             /\ last'.notes = <<>>
             /\ UNCHANGED <<g_factory, instance_, refCount_, handles,
                            g_session_handlers, g_message_handlers, impl, config,
                            engine, hist>>]_vars

\* a publish on a record without a session, while the session of the process
\* is connected and has subscribed
C16_Witness ==
    /\ last.op = "null session"
    /\ last.arg = "mqtt_publish"
    /\ Live(1)
    /\ engine[1].held = "connected"
    /\ impl[1].subscriptions # {}

SessionExists(s) == impl[s].alive = "live"
C19_AdaptersOutliveSession ==
    /\ [](\A s \in Sessions :
            SessionExists(s)
               => /\ impl[s].sessionHandler => s \in g_session_handlers
                  /\ impl[s].msgHandler => s \in g_message_handlers)
    /\ [][(~(g_session_handlers \subseteq g_session_handlers')
              \/ ~(g_message_handlers \subseteq g_message_handlers'))
            => last'.op = "mqtt_destroy_session"]_vars

\* C17: every read and write of the subscription table and of the handle
\* counter is made while holding the session's mutex; so two threads in
\* subscribe / unsubscribe on one session never get the same handle, and when
\* no call is in progress the table holds exactly the handles that were
\* returned and not yet unsubscribed with success.
TableAccessLabels ==
    {"subscribe_read", "subscribe_increment", "subscribe_insert", "unsubscribe_erase"}
C17_AccessUnderMutex ==
    \A t \in Threads : pc[t] \in TableAccessLabels => stateMutex = t
C17_DistinctHandles ==
    \A t \in Threads :
       (pc[t] = "subscribe_insert" /\ pc'[t] = "idle")
          => loc[t].handle \notin issued.returned
C17_TableExact ==
    (\A t \in Threads : pc[t] = "idle")
       => \A s \in Sessions : Live(s) => Keys(impl[s].subscriptions) = issued.open
C17_SubscriptionsUnderMutex ==
    /\ []C17_AccessUnderMutex
    /\ [][C17_DistinctHandles]_vars
    /\ []C17_TableExact

\* C18: the state handler receives the state-change notifications of a session
\* in the order of the writes of the state field they report, also when a
\* connection-lost event on the engine's thread interleaves with start() or
\* stop(); so, once no call is in progress, the state notified last is the
\* state get_state returns.
NotifyLabels == {"start_notify", "stop_notify", "lost_notify"}
C18_NotifiedInWriteOrder ==
    \A t \in Threads :
       (pc[t] \in NotifyLabels /\ pc'[t] = "idle" /\ StateNotesOf(last'.notes) # <<>>)
          => /\ pending # <<>>
             /\ pending[1].thread = t
             /\ pending[1].state = StatesOf(last'.notes)[1]
C18_LastNotifiedIsState ==
    ((\A t \in Threads : pc[t] = "idle") /\ StateNotesOf(last.notes) # <<>>)
       => StatesOf(last.notes)[Len(StatesOf(last.notes))] = getState(last.s)
C18_NotificationOrder ==
    /\ [][C18_NotifiedInWriteOrder]_vars
    /\ []C18_LastNotifiedIsState

\* C21: the reference count of the APIFactory singleton rises by one in every
\* getInstance call and falls by one in every uninitialize call; the instance
\* is deleted exactly when an uninitialize brings the count to zero, and a
\* getInstance after that creates an instance again.
GetInstanceCalled ==
    last'.op = "getInstance" \/ (last'.op = "mqtt_initialize" /\ ~g_factory)
UninitializeCalled ==
    last'.op = "uninitialize" \/ (last'.op = "mqtt_uninitialize" /\ g_factory)
C21_FactoryReferenceCount ==
    /\ [](instance_ <=> refCount_ > 0)
    /\ [][/\ GetInstanceCalled => (refCount_' = refCount_ + 1 /\ instance_')
          /\ UninitializeCalled
                => /\ refCount_' = refCount_ - 1
                   /\ instance_' <=> refCount_' # 0
          /\ (instance_ /\ ~instance_') => (UninitializeCalled /\ refCount_' = 0)
          /\ refCount_' # refCount_ => (GetInstanceCalled \/ UninitializeCalled)
       ]_vars

\* the instance exists again, after it was deleted while a session was live,
\* with two references of the application next to the one of g_factory
C21_Witness ==
    /\ last.op = "getInstance"
    /\ instance_
    /\ refCount_ = 3
    /\ g_factory
    /\ \E s \in Sessions : handles[s].status = "freed" /\ impl[s].alive = "live"

\* C22: releasing the binding's client runs mqtt_session_stop and then
\* mqtt_destroy_session on its handle, once each and in that order, and when
\* the release has completed the engine keeps no client registered with the
\* callbacks of that session, so none of them can fire any more.
C22_DropReleasesCallbacks ==
    last.op = "Client_drop"
        => /\ last.arg = <<"mqtt_session_stop", "mqtt_destroy_session">>
           /\ handles[last.s].status = "freed"
           /\ engine[last.s] = NoClients

\* C23: a trampoline calls the user closure only while it holds the lock of
\* the callback context and keeps the lock until the closure has returned,
\* so at most one user closure of a client (message, state or error) is
\* executing at any time, whichever threads deliver the events.
C23_OneClosureAtATime ==
    /\ Cardinality(running) <= 1
    /\ \A r \in running : callbacks = r.thread /\ entered[r.thread] = r.closure

\* the engine's thread runs the message closure while a caller thread has a
\* state change to deliver and waits for the lock
C23_Witness ==
    /\ running = {[thread |-> "E", closure |-> "message_callback"]}
    /\ \E t \in Callers : pc[t] = "context_lock" /\ entered[t] = "state_callback"

\* C24: a stop() on a session that holds a native client first makes the
\* engine calls disconnect and destroy, whatever disconnect answers, then
\* writes Disconnected while it holds the state lock, then calls
\* onStateChange(Disconnected) exactly once and returns true; the session
\* holds no native client from the engine calls on.
C24_StopSequence ==
    [][\A t \in Callers :
        /\ (pc[t] = "idle" /\ last'.op = "stop" /\ last'.arg = t /\ impl[last'.s].client)
              => pc'[t] = "stop_disconnected"
        /\ (pc[t] = "idle" /\ pc'[t] = "stop_disconnected")
              => /\ impl[loc'[t].s].client /\ ~impl'[loc'[t].s].client
                 /\ Len(last'.eng) = 2
                 /\ last'.eng[1].call = "disconnect" /\ last'.eng[2] = Call("destroy", 0)
                 /\ last'.notes = <<>>
                 /\ impl'[loc'[t].s].currentState = getState(loc'[t].s)
        /\ (pc[t] = "stop_disconnected" /\ pc'[t] # pc[t])
              => /\ pc'[t] = "stop_notify"
                 /\ stateMutex = t
                 /\ impl'[loc[t].s].currentState = DISCONNECTED
                 /\ last'.eng = <<>> /\ last'.notes = <<>>
                 /\ ~impl'[loc[t].s].client
        /\ (pc[t] = "stop_notify" /\ pc'[t] # pc[t])
              => /\ pc'[t] = "idle"
                 /\ last'.op = "stop" /\ last'.ret = TRUE
                 /\ last'.eng = <<>>
                 /\ last'.notes = <<StateNote(DISCONNECTED)>>
                 /\ ~impl'[loc[t].s].client]_vars

\* the engine failed the disconnect of a stop(), which goes on to the write
C24_Witness ==
    /\ pc["A"] = "stop_disconnected"
    /\ last.op = "stop"
    /\ last.eng # <<>> /\ last.eng[1].rc # MQTTCLIENT_SUCCESS
    /\ ~impl[loc["A"].s].client

\* C25: for each message the engine delivers to a session that exists, the
\* message handler is called once when one is set and not at all otherwise,
\* and the engine's message and topic buffers are released once each, after
\* the handler call, with or without a handler.
C25_MessageDelivery ==
    (last.op = "onMessageCallback" /\ Live(last.s))
       => /\ last.notes = (IF impl[last.s].msgHandler THEN <<MessageNote>> ELSE <<>>)
          /\ last.eng = <<Call("freeMessage", 0), Call("free", 0)>>
          /\ last.arg = (IF impl[last.s].msgHandler THEN <<"onMessage">> ELSE <<>>)
                            \o <<"freeMessage", "free">>
          /\ last.ret = 1

\* a message for a connected session that has a message handler
C25_Witness ==
    /\ last.op = "onMessageCallback"
    /\ Live(last.s)
    /\ impl[last.s].msgHandler
    /\ engine[last.s].held = "connected"
    /\ last.notes = <<MessageNote>>

\* C26: an unsubscribe of a handle of the table that the engine fails returns
\* false and leaves the table as it was, the entry with its topic included,
\* so the handle stays valid; and every unsubscribe of a handle of the table
\* that the engine accepts, a retry after a failure included, returns true
\* and removes exactly that entry.
C26_FailedUnsubscribeKeepsEntry ==
    [][(last'.op = "unsubscribe" /\ Found(impl[last'.s], last'.arg))
          => LET s == last'.s
                 handle == last'.arg
                 rc == last'.eng[1].rc
             IN  /\ last'.eng = <<Call("unsubscribe", rc)>>
                 /\ rc # MQTTCLIENT_SUCCESS
                       => /\ last'.ret = FALSE
                          /\ impl'[s].subscriptions = impl[s].subscriptions
                          /\ Found(impl'[s], handle)
                 /\ rc = MQTTCLIENT_SUCCESS
                       => /\ last'.ret = TRUE
                          /\ impl'[s].subscriptions = Erase(impl[s].subscriptions, handle)
                          /\ ~Found(impl'[s], handle)]_vars

\* the engine has failed the unsubscribe of a subscribed handle of a
\* connected session, where a retry can be accepted
C26_Witness ==
    /\ last.op = "unsubscribe"
    /\ last.ret = FALSE
    /\ last.eng # <<>>
    /\ Found(impl[last.s], last.arg)
    /\ engine[last.s].held = "connected"

\* C27: a subscribe the engine rejects returns -1 and changes neither the
\* subscription table nor the handle counter; a subscribe the engine accepts
\* adds the one entry handle -> topic to the table; the first accepted
\* subscribe of a session returns 1 and each later one returns the handle of
\* the accepted subscribe before it plus one, so the k-th returns k.
C27_HandlesCountSubscribes ==
    [][last'.op = "subscribe"
          => LET s == last'.s
                 topic == last'.arg
                 rc == last'.eng[1].rc
             IN  /\ rc # MQTTCLIENT_SUCCESS
                       => /\ last'.ret = -1
                          /\ impl'[s].subscriptions = impl[s].subscriptions
                          /\ impl'[s].nextSubHandle = impl[s].nextSubHandle
                          /\ hist'[s].handle = hist[s].handle
                 /\ rc = MQTTCLIENT_SUCCESS
                       => /\ last'.ret = hist[s].handle + 1
                          /\ last'.ret \notin Keys(impl[s].subscriptions)
                          /\ impl'[s].subscriptions =
                                impl[s].subscriptions \cup {<<last'.ret, topic>>}]_vars

\* the second accepted subscribe of a session, both entries in the table
C27_Witness ==
    /\ last.op = "subscribe"
    /\ last.ret = 2
    /\ impl[last.s].nextSubHandle = 3
    /\ Cardinality(impl[last.s].subscriptions) = 2

C29_BridgeReturns ==
    /\ last.op \in {"start", "stop", "unsubscribe"}
          => /\ last.c_ret \in {0, -1}
             /\ last.c_ret = 0 <=> last.ret = TRUE
             /\ last.c_ret = -1 <=> last.ret = FALSE
    /\ last.op \in {"subscribe", "publish"} => last.c_ret = last.ret
    /\ last.op = "getState"
          => /\ last.ret = getState(last.s)
             /\ <<DISCONNECTED, CONNECTING, CONNECTED, RECONNECTING>>[last.c_ret + 1]
                   = getState(last.s)

\* mqtt_unsubscribe with a handle that is not subscribed, on a valid session
\* handle: the method returns false without an engine call, the function -1
C29_Witness ==
    /\ last.op = "unsubscribe"
    /\ last.ret = FALSE
    /\ last.eng = <<>>
    /\ last.c_ret = -1

\* C30: every publish call advances the message id counter by one, a publish
\* the engine rejects included, which returns -1 and so uses up the id it
\* took; a publish the engine accepts returns the id it took, greater than
\* every id returned before, with a gap for each rejected publish in between.
C30_RejectedPublishTakesId ==
    [][last'.op = "publish"
          => LET s == last'.s
                 rc == last'.eng[1].rc
             IN  /\ impl'[s].nextMessageId = impl[s].nextMessageId + 1
                 /\ rc # MQTTCLIENT_SUCCESS
                       => /\ last'.ret = -1
                          /\ hist'[s].id = hist[s].id
                 /\ rc = MQTTCLIENT_SUCCESS
                       => /\ last'.ret = impl[s].nextMessageId
                          /\ last'.ret > hist[s].id
                          /\ hist'[s].id = last'.ret]_vars

\* the first publish of a connected session was rejected: no id has been
\* returned yet and the next publish takes id 2
C30_Witness ==
    /\ last.op = "publish"
    /\ last.ret = -1
    /\ hist[last.s].id = 0
    /\ impl[last.s].nextMessageId = 2
    /\ engine[last.s].held = "connected"

\* C31: stop() and start() change neither the subscription table nor the
\* handle counter nor the message id counter of the session: the handles
\* subscribed before a stop are keys of the table after it and after a
\* restart, and both counters go on from where they were.
C31_StopStartKeepSubscriptions ==
    [][last'.op \in {"start", "stop"}
          => LET s == last'.s
             IN  /\ impl'[s].subscriptions = impl[s].subscriptions
                 /\ Keys(impl[s].subscriptions) \subseteq Keys(impl'[s].subscriptions)
                 /\ impl'[s].nextSubHandle = impl[s].nextSubHandle
                 /\ impl'[s].nextMessageId = impl[s].nextMessageId]_vars

\* a restart that connects, with no earlier client left in the engine (so a
\* stop came before it), of a session that holds handle 1 and has published
C31_Witness ==
    /\ last.op = "start"
    /\ last.ret = TRUE
    /\ engine[last.s] = [held |-> "connected", idle |-> 0, connected |-> 0]
    /\ Keys(impl[last.s].subscriptions) = {1}
    /\ impl[last.s].nextSubHandle = 2
    /\ impl[last.s].nextMessageId = 2

\* C32: a start() that fails at the connect step leaves the state
\* Disconnected and keeps the native client it created; a stop() that follows
\* it therefore disconnects and destroys that client and delivers one
\* onStateChange(Disconnected), although the state was Disconnected already.
C32_StopAfterFailedConnect ==
    [][/\ (last'.op = "start" /\ last'.arg = "connect" /\ last'.ret = FALSE)
             => /\ impl'[last'.s].currentState = DISCONNECTED
                /\ impl'[last'.s].client
                /\ engine'[last'.s].held = "created"
       /\ (/\ last.op = "start" /\ last.arg = "connect" /\ last.ret = FALSE
           /\ last'.op = "stop" /\ last'.s = last.s)
             => /\ getState(last.s) = DISCONNECTED
                /\ Len(last'.eng) = 2
                /\ last'.eng[1].call = "disconnect"
                /\ last'.eng[2] = Call("destroy", 0)
                /\ last'.notes = <<StateNote(DISCONNECTED)>>
                /\ last'.ret = TRUE
                /\ impl'[last.s].currentState = DISCONNECTED
                /\ ~impl'[last.s].client
                /\ engine'[last.s].held = "none"]_vars

\* a start() has failed at connect: Disconnected, with a client that is not
\* connected, and stop() can be called
C32_Witness ==
    /\ last.op = "start"
    /\ last.arg = "connect"
    /\ last.ret = FALSE
    /\ Live(last.s)
    /\ getState(last.s) = DISCONNECTED
    /\ impl[last.s].client
    /\ engine[last.s].held = "created"

\* C33: a session owns at most one native client at any time: the engine
\* keeps no client of a session beside the one the session holds, and when
\* the session has been stopped or destroyed every native client that was
\* created for it has been destroyed.
C33_AtMostOneNativeClient ==
    /\ \A s \in Sessions : engine[s].idle + engine[s].connected = 0
    /\ last.op \in {"stop", "mqtt_destroy_session"} => engine[last.s] = NoClients

\* C35: mqtt_destroy_session on a live handle after mqtt_uninitialize still
\* stops the session, erases its adapters and frees the handle record, but
\* does not destroy the Session object; and a handle created before
\* mqtt_uninitialize stays usable after it: start, stop, subscribe and publish
\* reach the Session and act as they do while a factory is in effect.
C35_DestroyAfterUninitialize ==
    [][~g_factory
         => /\ \A s \in Sessions :
                  Live(s) => handles[s].session = s /\ impl[s].alive = "live"
            /\ last'.op = "mqtt_destroy_session"
                  => LET s == last'.s
                     IN  /\ Live(s)
                         /\ impl[s].client
                               => /\ Len(last'.eng) = 2
                                  /\ last'.eng[1].call = "disconnect"
                                  /\ last'.eng[2] = Call("destroy", 0)
                                  /\ last'.notes = <<StateNote(DISCONNECTED)>>
                         /\ ~impl[s].client => last'.eng = <<>> /\ last'.notes = <<>>
                         /\ engine'[s].held = "none"
                         /\ ~impl'[s].client
                         /\ impl'[s].currentState = DISCONNECTED
                         /\ s \notin g_session_handlers'
                         /\ s \notin g_message_handlers'
                         /\ handles'[s].status = "freed"
                         /\ impl'[s].alive = "live"
            /\ (last'.op = "start" /\ last'.arg = "connect")
                  => /\ Live(last'.s)
                     /\ last'.ret = (last'.eng[3].rc = MQTTCLIENT_SUCCESS)
                     /\ last'.ret => impl'[last'.s].currentState = CONNECTED
                     /\ impl'[last'.s].client
            /\ last'.op = "stop"
                  => /\ Live(last'.s)
                     /\ last'.ret = TRUE
                     /\ ~impl'[last'.s].client
            /\ (last'.op = "subscribe" /\ last'.eng[1].rc = MQTTCLIENT_SUCCESS)
                  => /\ Live(last'.s)
                     /\ last'.ret = impl[last'.s].nextSubHandle
                     /\ last'.ret \in Keys(impl'[last'.s].subscriptions)
            /\ (last'.op = "publish" /\ last'.eng[1].rc = MQTTCLIENT_SUCCESS)
                  => /\ Live(last'.s)
                     /\ last'.ret = MessageId(impl[last'.s])
                     /\ impl'[last'.s].nextMessageId = impl[last'.s].nextMessageId + 1]_vars

\* a session that was started, subscribed and published after
\* mqtt_uninitialize has been destroyed through its handle: the handle record
\* is freed and the Session object is still there
C35_Witness ==
    /\ ~g_factory
    /\ last.op = "mqtt_destroy_session"
    /\ last.eng # <<>>
    /\ handles[last.s].status = "freed"
    /\ impl[last.s].alive = "live"
    /\ impl[last.s].subscriptions # {}
    /\ impl[last.s].nextMessageId = 2

\* C36: when the factory is reached only through mqtt_initialize and
\* mqtt_uninitialize, its reference count is 1 while a factory is in effect
\* and 0 otherwise, and so never negative; an mqtt_initialize with a factory
\* in effect returns 0 and takes no reference, and an mqtt_uninitialize with
\* none in effect returns 0 and leaves the count as it is.
C36_FactoryCount ==
    /\ [](/\ refCount_ = (IF g_factory THEN 1 ELSE 0)
          /\ refCount_ >= 0
          /\ instance_ = g_factory)
    /\ [][/\ last'.op = "mqtt_initialize"
                => /\ last'.ret = 0
                   /\ g_factory'
                   /\ (g_factory => (refCount_' = refCount_ /\ instance_' = instance_))
                   /\ (~g_factory => (refCount_' = refCount_ + 1))
       /\ last'.op = "mqtt_uninitialize"
                => /\ last'.ret = 0
                   /\ ~g_factory'
                   /\ (~g_factory => (refCount_' = refCount_ /\ instance_' = instance_))
                   /\ (g_factory => (refCount_' = refCount_ - 1))]_vars

\* mqtt_initialize has returned while a session exists, so it was not the
\* first call: the count is 1
C36_Witness ==
    /\ last.op = "mqtt_initialize"
    /\ last.ret = 0
    /\ \E s \in Sessions : Live(s)
    /\ g_factory
    /\ refCount_ = 1

\* C37: the session never invokes a handler while it holds its state mutex:
\* the thread that holds the mutex is inside a lock_guard scope, at the write
\* that ends with the release, and a step that calls a handler is made by a
\* thread that does not hold the mutex.  So getState() called from inside the
\* handler finds the mutex free or held by another thread that is about to
\* release it; and the state that onStateChange reports was written to the
\* state field by the notifying thread before the call.
C37_HandlersOutsideMutex ==
    /\ [](/\ stateMutex # "free" => pc[stateMutex] \in LockLabels
          /\ \A t \in Threads : pc[t] \in NotifyLabels => stateMutex # t)
    /\ [][last'.notes # <<>>
            => /\ stateMutex # last'.arg
               /\ stateMutex' # last'.arg
               /\ (stateMutex = "free" \/ pc[stateMutex] \in LockLabels)
               /\ StateNotesOf(last'.notes) # <<>>
                     => /\ pc[last'.arg] \in NotifyLabels
                        /\ \E i \in DOMAIN pending :
                              pending[i] = [thread |-> last'.arg,
                                            state |-> StatesOf(last'.notes)[1]]]_vars

\* stop() has called onStateChange(Disconnected) on the caller's thread while
\* the engine's thread, in onConnectionLost, holds the state mutex
C37_Witness ==
    /\ last.op = "stop"
    /\ last.arg = "A"
    /\ last.notes = <<StateNote(DISCONNECTED)>>
    /\ stateMutex = "E"
    /\ pc["E"] = "lost_reconnecting"

\* C34: mqtt_destroy_session calls the state callback with Disconnected, for
\* the stop it performs, while it holds g_mutex; a state callback that calls
\* mqtt_create_session, mqtt_destroy_session, mqtt_initialize or
\* mqtt_uninitialize from there never gets past the lock of that function
\* and keeps g_mutex for ever; and no other thread gets past the lock of one
\* of those functions before the callback has returned and
\* mqtt_destroy_session has released g_mutex.
InCallback == {"state_cb", "blocked"}
C34_CallbackUnderRegistryMutex ==
    /\ [](\A t \in Callers :
            pc[t] \in {"destroy_stop", "destroy_erase"} \cup InCallback => g_mutex = t)
    /\ [][\A t \in Callers :
            /\ (pc[t] = "destroy_stop" /\ pc'[t] # pc[t] /\ StateNotesOf(last'.notes) # <<>>)
                  => /\ last'.notes = <<StateNote(DISCONNECTED)>>
                     /\ g_mutex = t /\ g_mutex' = t
                     /\ pc'[t] = "state_cb"
            /\ (pc[t] = "state_cb" /\ pc'[t] # pc[t])
                  => \/ pc'[t] = "destroy_erase"
                     \/ pc'[t] = "registry_lock" /\ last'.op \in RegistryFunctions
            /\ (pc[t] = "registry_lock" /\ g_mutex = t /\ pc'[t] # pc[t])
                  => pc'[t] = "blocked" /\ g_mutex' = t
            /\ pc[t] = "blocked" => pc'[t] = "blocked" /\ g_mutex' = t
            /\ (pc[t] = "registry_lock" /\ pc'[t] \in {"registry_body", "destroy_stop"})
                  => /\ g_mutex = "free"
                     /\ \A u \in Callers : pc[u] \notin InCallback
            /\ (pc[t] \in InCallback /\ pc'[t] \in InCallback)
                  => /\ g_factory' = g_factory /\ refCount_' = refCount_
                     /\ handles' = handles
                     /\ g_session_handlers' = g_session_handlers
                     /\ g_message_handlers' = g_message_handlers]_vars

\* the state callback that mqtt_destroy_session runs on thread A has called
\* mqtt_uninitialize and waits on the mutex its own thread holds, and thread
\* B waits at the lock of mqtt_initialize
C34_Witness ==
    /\ pc["A"] = "blocked"
    /\ loc["A"].fn = "mqtt_uninitialize"
    /\ g_mutex = "A"
    /\ Live(loc["A"].s)
    /\ pc["B"] = "registry_lock"
    /\ loc["B"].fn = "mqtt_initialize"

====
